---- MODULE Spec2Model ----
(***************************************************************************)
(* Model of the identifier map of Fluor-Tools (src/tools/mapper.py), of   *)
(* its auditor (src/tools/auditor.py) and of its comparer                  *)
(* (src/tools/comparer.py).                                                *)
(*                                                                         *)
(* A Python str is a sequence of character codes, so that str.lower() is   *)
(* computed and not assumed.  A dict is a sequence of entries in insertion *)
(* order with pairwise distinct keys.  An optional value (None or a value) *)
(* is a sequence of length 0 or 1.                                         *)
(***************************************************************************)
EXTENDS Integers, Sequences, FiniteSets, TLC

VARIABLES
    map,          \* Map.map: the headers, in dict insertion order
    source,       \* Map.source
    unresolved,   \* Map.unresolved
    dangled,      \* Map.dangled
    origin,       \* history: "empty" for Map(), "file" for Map(path)
    calls,        \* history: the number of calls made on the map
    pre,          \* history: map, source, unresolved, dangled before the last call
    last,         \* history: the last call, its arguments and its outcome
    auditor,      \* an Auditor, with the history of the calls made on it
    unit,         \* one validator object, with the history of its last call
    managing,     \* Map.manage_unresolved, a call waiting for its next input
    comparer      \* a Comparer, with the history of its last call

vars == <<map, source, unresolved, dangled, origin, calls, pre, last, auditor, unit,
          managing, comparer>>

\* no object of the kind has been constructed
NoObject == [cls |-> "none"]

----------------------------------------------------------------------------
(* Bounds of the model *)

\* longest batch handed to Map.append
MaxBatch == 2

\* longest identifier list of one header
MaxIds == 3

\* longest run of calls made on one constructed map
MaxCalls == 2

----------------------------------------------------------------------------
(* Strings *)

\* "EGFP"
sEGFP == <<69, 71, 70, 80>>
\* "egfp"
sEgfpLower == <<101, 103, 102, 112>>
\* "En GFP", standing for "Enhanced GFP"
sEnhancedGFP == <<69, 110, 32, 71, 70, 80>>
\* "en gfp"
sEnhancedLower == <<101, 110, 32, 103, 102, 112>>
\* "eGFP v", standing for "eGFP variant"
sEGFPVariant == <<101, 71, 70, 80, 32, 118>>
\* "CFP"
sCFP == <<67, 70, 80>>
\* "cfp"
sCfpLower == <<99, 102, 112>>
\* "Dye"
sDye == <<68, 121, 101>>

\* str.lower() on one ASCII character
LowerChar(c) == IF c >= 65 /\ c <= 90 THEN c + 32 ELSE c

\* str.lower()
lower(s) == [i \in 1..Len(s) |-> LowerChar(s[i])]

\* str.__lt__: lexicographic order on the character codes
RECURSIVE StrLess(_, _)
StrLess(a, b) ==
    IF b = <<>> THEN FALSE
    ELSE IF a = <<>> THEN TRUE
    ELSE IF a[1] # b[1] THEN a[1] < b[1]
    ELSE StrLess(Tail(a), Tail(b))

----------------------------------------------------------------------------
(* Identifier, Header and the records of a Reader *)

\* Identifier(source, identifier); equality is on (source, identifier)
Identifier(src, id) == [source |-> src, identifier |-> id]

\* Identifier(): Source.none and no identifier string
NoIdentifier == Identifier("none", "")

\* Header(header): valid, no source, no names, no identifiers
Header(header) ==
    [header |-> header, valid |-> TRUE, source |-> <<>>,
     names |-> <<>>, identifiers |-> <<>>]

\* one item of the data given to Map.append: data_id.source,
\* data_id.identifier and names
Record(src, id, names) == [source |-> src, identifier |-> id, names |-> names]

fp1 == Identifier("fpbase", "p1")
fp2 == Identifier("fpbase", "p2")
fp3 == Identifier("fpbase", "p3")
bd1 == Identifier("bd", "p1")

\* the identifiers handed to append_to, new, delete and delete_identifier
Identifiers == {fp1, fp3, bd1}

HeaderKeys == {sEGFP, sCFP}

Records ==
    { Record("fpbase", "p1", <<sEGFPVariant, sEnhancedGFP>>),
      Record("fpbase", "p2", <<sCfpLower, sEGFP>>),
      Record("fpbase", "p2", <<sDye>>),
      Record("bd", "p1", <<sEgfpLower>>) }

RECURSIVE SeqsUpTo(_, _)
SeqsUpTo(S, n) ==
    IF n = 0 THEN {<<>>}
    ELSE LET shorter == SeqsUpTo(S, n - 1)
         IN  shorter \cup {Append(s, x) : s \in {t \in shorter : Len(t) = n - 1}, x \in S}

Batches == SeqsUpTo(Records, MaxBatch)

----------------------------------------------------------------------------
(* dict helpers *)

Keys(m) == {m[i].header : i \in DOMAIN m}

IndexOf(m, header) == CHOOSE i \in DOMAIN m : m[i].header = header

\* del m[header]
DelKey(m, header) == SelectSeq(m, LAMBDA h : h.header # header)

Min(S) == CHOOSE x \in S : \A y \in S : x <= y
Max(S) == CHOOSE x \in S : \A y \in S : x >= y

\* all orders in which a set may be iterated
RECURSIVE Orders(_)
Orders(S) ==
    IF S = {} THEN {<<>>}
    ELSE UNION {{<<x>> \o rest : rest \in Orders(S \ {x})} : x \in S}

----------------------------------------------------------------------------
(* Map.append *)

\* mutant of AppendIdentifier: the identifier takes the place of the list
AppendIdentifier_replace(m, header, identifier) ==
    [m EXCEPT ![IndexOf(m, header)].identifiers = <<identifier>>]

\* m[header].identifiers.append(identifier)
AppendIdentifier(m, header, identifier) ==
    [m EXCEPT ![IndexOf(m, header)].identifiers = Append(@, identifier)]

\* the lookup dict of Map.append: every registered name, lower-cased, bound
\* to the header that registered it; a later header overwrites an earlier one
name_to_header(m) ==
    LET registered(i) == {lower(m[i].names[j]) : j \in DOMAIN m[i].names}
        keys == UNION {registered(i) : i \in DOMAIN m}
    IN  [n \in keys |-> m[Max({i \in DOMAIN m : n \in registered(i)})].header]

\* mutant of map_identifiers: the identifiers of every source
map_identifiers_any_source(m, src) ==
    UNION {{m[i].identifiers[j] : j \in DOMAIN m[i].identifiers} : i \in DOMAIN m}

\* the set of the identifiers of the map that are of the batch's source
map_identifiers(m, src) ==
    UNION {{m[i].identifiers[j] : j \in {k \in DOMAIN m[i].identifiers :
                                            m[i].identifiers[k].source = src}}
           : i \in DOMAIN m}

\* mutant of first_match: the loop is left after the first name, found or not
first_match_first_name_only(names, n2h) ==
    IF names # <<>> /\ lower(names[1]) \in DOMAIN n2h
    THEN <<n2h[lower(names[1])]>> ELSE <<>>

\* the loop over item.names: the header of the first name found in the
\* lookup dict (None, the empty sequence, when no name is found)
first_match(names, n2h) ==
    LET hits == {k \in DOMAIN names : lower(names[k]) \in DOMAIN n2h}
    IN  IF hits = {} THEN <<>> ELSE <<n2h[lower(names[Min(hits)])]>>

\* mutant of append_item: an identifier already in the map is not skipped
append_item_relink(st, item, src, n2h, mapids) ==
    IF item.source # src
    THEN [st EXCEPT !.raised = "ValueError"]
    ELSE LET identifier == Identifier(src, item.identifier)
             st1 == [st EXCEPT !.data_identifiers = @ \cup {identifier}]
             found == first_match(item.names, n2h)
         IN  IF found # <<>>
             THEN [st1 EXCEPT !.map = AppendIdentifier(@, found[1], identifier)]
             ELSE [st1 EXCEPT !.unresolved = Append(@, identifier)]

\* one pass of the loop over data
append_item(st, item, src, n2h, mapids) ==
    IF item.source # src
    THEN [st EXCEPT !.raised = "ValueError"]
    ELSE LET identifier == Identifier(src, item.identifier)
             st1 == [st EXCEPT !.data_identifiers = @ \cup {identifier}]
             found == first_match(item.names, n2h)
         IN  IF identifier \in mapids THEN st1
             ELSE IF found # <<>>
             THEN [st1 EXCEPT !.map = AppendIdentifier(@, found[1], identifier)]
             ELSE [st1 EXCEPT !.unresolved = Append(@, identifier)]

\* the loop over data, left at the first raise
RECURSIVE append_loop(_, _, _, _, _)
append_loop(data, st, src, n2h, mapids) ==
    IF data = <<>> \/ st.raised # "none" THEN st
    ELSE append_loop(Tail(data), append_item(st, Head(data), src, n2h, mapids),
                     src, n2h, mapids)

\* Map.append up to the iteration over the dangling set
append_result(m, data) ==
    IF data = <<>>
    THEN [map |-> m, source |-> "None", unresolved |-> <<>>, dangling |-> {},
          raised |-> "none"]
    ELSE IF data[1].source = "none"
    THEN [map |-> m, source |-> "None", unresolved |-> <<>>, dangling |-> {},
          raised |-> "ValueError"]
    ELSE LET src == data[1].source
             mapids == map_identifiers(m, src)
             st == append_loop(data,
                               [map |-> m, unresolved |-> <<>>,
                                data_identifiers |-> {}, raised |-> "none"],
                               src, name_to_header(m), mapids)
         IN  [map |-> st.map, source |-> src, unresolved |-> st.unresolved,
              dangling |-> IF st.raised = "none"
                           THEN mapids \ st.data_identifiers ELSE {},
              raised |-> st.raised]

----------------------------------------------------------------------------
(* Map.append_to, Map.new, Map.delete, Map.delete_identifier, Map.sort *)

append_to_result(m, header, identifier) ==
    IF header \notin Keys(m)
    THEN [map |-> m, raised |-> "KeyError"]
    ELSE [map |-> AppendIdentifier(m, header, identifier), raised |-> "none"]

\* mutant of new_result: an existing header is replaced
new_result_overwrite(m, header, identifier, valid) ==
    LET h == [Header(header) EXCEPT !.identifiers = <<identifier>>, !.valid = valid]
    IN  IF header \in Keys(m)
        THEN [map |-> [m EXCEPT ![IndexOf(m, header)] = h], raised |-> "none"]
        ELSE [map |-> Append(m, h), raised |-> "none"]

new_result(m, header, identifier, valid) ==
    IF header \in Keys(m)
    THEN [map |-> m, raised |-> "KeyError"]
    ELSE [map |-> Append(m, [Header(header) EXCEPT !.identifiers = <<identifier>>,
                                                   !.valid = valid]),
          raised |-> "none"]

\* mutant of delete_loop: the loop is left at the first identifier deleted
RECURSIVE delete_loop_first(_, _, _)
delete_loop_first(ids, i, identifier) ==
    IF i = 0 THEN ids
    ELSE IF ids[i] = identifier
    THEN [k \in 1..(Len(ids) - 1) |-> IF k < i THEN ids[k] ELSE ids[k + 1]]
    ELSE delete_loop_first(ids, i - 1, identifier)

\* the loop of Map.delete: i runs from len(identifiers) down to 1
RECURSIVE delete_loop(_, _, _)
delete_loop(ids, i, identifier) ==
    IF i = 0 THEN ids
    ELSE IF ids[i] = identifier
    THEN delete_loop([k \in 1..(Len(ids) - 1) |-> IF k < i THEN ids[k] ELSE ids[k + 1]],
                     i - 1, identifier)
    ELSE delete_loop(ids, i - 1, identifier)

\* mutant of delete_result: a header left without identifiers stays in the map
delete_result_keep_header(m, header, identifier) ==
    IF header \notin Keys(m)
    THEN [map |-> m, raised |-> "KeyError"]
    ELSE LET h == IndexOf(m, header)
             ids == delete_loop(m[h].identifiers, Len(m[h].identifiers), identifier)
             m1 == [m EXCEPT ![h].identifiers = ids]
             m2 == IF m1[h].source = <<identifier>>
                   THEN [m1 EXCEPT ![h].source = <<>>] ELSE m1
         IN  IF ids = m[h].identifiers THEN [map |-> m, raised |-> "none"]
             ELSE [map |-> m2, raised |-> "none"]

delete_result(m, header, identifier) ==
    IF header \notin Keys(m)
    THEN [map |-> m, raised |-> "KeyError"]
    ELSE LET h == IndexOf(m, header)
             ids == delete_loop(m[h].identifiers, Len(m[h].identifiers), identifier)
             is_modified == ids # m[h].identifiers
             m1 == [m EXCEPT ![h].identifiers = ids]
             m2 == IF m1[h].source = <<identifier>>
                   THEN [m1 EXCEPT ![h].source = <<>>] ELSE m1
         IN  IF ~is_modified THEN [map |-> m, raised |-> "none"]
             ELSE IF ids = <<>> THEN [map |-> DelKey(m2, header), raised |-> "none"]
             ELSE [map |-> m2, raised |-> "none"]

\* the loop of Map.delete_identifier over list(self.map)
RECURSIVE delete_identifier_loop(_, _, _)
delete_identifier_loop(r, headers, identifier) ==
    IF headers = <<>> \/ r.raised # "none" THEN r
    ELSE delete_identifier_loop(delete_result(r.map, Head(headers), identifier),
                                Tail(headers), identifier)

\* mutant of delete_identifier_result: the walk is over the dict itself,
\* which raises once a header is removed from it
delete_identifier_result_live(m, identifier) ==
    LET r == delete_identifier_loop([map |-> m, raised |-> "none"],
                                    [i \in DOMAIN m |-> m[i].header], identifier)
    IN  IF Len(r.map) # Len(m) THEN [r EXCEPT !.raised = "RuntimeError"] ELSE r

delete_identifier_result(m, identifier) ==
    delete_identifier_loop([map |-> m, raised |-> "none"],
                           [i \in DOMAIN m |-> m[i].header], identifier)

\* mutant of sort_result: the pairs (key.lower(), key) are sorted as pairs,
\* so that keys equal up to case are ordered by the keys themselves
sort_result_by_pair(m) ==
    LET key(i) == lower(m[i].header)
        before(i, j) == \/ StrLess(key(i), key(j))
                        \/ (key(i) = key(j) /\ StrLess(m[i].header, m[j].header))
        rank(i) == 1 + Cardinality({j \in DOMAIN m : before(j, i)})
    IN  [p \in DOMAIN m |-> m[CHOOSE i \in DOMAIN m : rank(i) = p]]

\* Map.sort: list.sort is stable, the key is the lower-cased header
sort_result(m) ==
    LET key(i) == lower(m[i].header)
        before(i, j) == StrLess(key(i), key(j)) \/ (key(i) = key(j) /\ i < j)
        rank(i) == 1 + Cardinality({j \in DOMAIN m : before(j, i)})
    IN  [p \in DOMAIN m |-> m[CHOOSE i \in DOMAIN m : rank(i) = p]]

----------------------------------------------------------------------------
(* The calls on a Map *)

State == [map |-> map, source |-> source, unresolved |-> unresolved,
          dangled |-> dangled]

Call(op, data, header, identifier, valid) ==
    [op |-> op, data |-> data, header |-> header, identifier |-> identifier,
     valid |-> valid]

LastCall == Call(last.op, last.data, last.header, last.identifier, last.valid)

\* the history of a call: what was called, how it ended, whether it is the
\* call made just before, made again, and how the call just before ended
Called(call, raised) ==
    /\ calls' = calls + 1
    /\ UNCHANGED <<origin, auditor, unit, managing, comparer>>
    /\ pre' = State
    /\ last' = [op |-> call.op, data |-> call.data, header |-> call.header,
                identifier |-> call.identifier, valid |-> call.valid,
                raised |-> raised, rep |-> (call = LastCall),
                before |-> last.raised]

\* a further call can be made
CanCall == calls < MaxCalls

WithinBounds(m) == \A i \in DOMAIN m : Len(m[i].identifiers) <= MaxIds

append(data) ==
    /\ CanCall
    /\ \E r \in {append_result(map, data)} :
           /\ WithinBounds(r.map)
           /\ map' = r.map
           /\ source' = r.source
           /\ unresolved' = r.unresolved
           /\ dangled' \in Orders(r.dangling)
           /\ Called(Call("append", data, <<>>, NoIdentifier, TRUE), r.raised)

append_to(header, identifier) ==
    /\ CanCall
    /\ \E r \in {append_to_result(map, header, identifier)} :
           /\ WithinBounds(r.map)
           /\ map' = r.map
           /\ UNCHANGED <<source, unresolved, dangled>>
           /\ Called(Call("append_to", <<>>, header, identifier, TRUE), r.raised)

new(header, identifier, valid) ==
    /\ CanCall
    /\ \E r \in {new_result(map, header, identifier, valid)} :
           /\ map' = r.map
           /\ UNCHANGED <<source, unresolved, dangled>>
           /\ Called(Call("new", <<>>, header, identifier, valid), r.raised)

delete(header, identifier) ==
    /\ CanCall
    /\ \E r \in {delete_result(map, header, identifier)} :
           /\ map' = r.map
           /\ UNCHANGED <<source, unresolved, dangled>>
           /\ Called(Call("delete", <<>>, header, identifier, TRUE), r.raised)

delete_identifier(identifier) ==
    /\ CanCall
    /\ \E r \in {delete_identifier_result(map, identifier)} :
           /\ map' = r.map
           /\ UNCHANGED <<source, unresolved, dangled>>
           /\ Called(Call("delete_identifier", <<>>, <<>>, identifier, TRUE), r.raised)

sort ==
    /\ CanCall
    /\ map' = sort_result(map)
    /\ UNCHANGED <<source, unresolved, dangled>>
    /\ Called(Call("sort", <<>>, <<>>, NoIdentifier, TRUE), "none")

----------------------------------------------------------------------------
(* Map(path): the empty map, or the headers of a map file *)

\* one header "EGFP" with the names "EGFP" and "Enhanced GFP"
MapEGFP ==
    << [header |-> sEGFP, valid |-> TRUE, source |-> <<bd1>>,
        names |-> <<sEGFP, sEnhancedGFP>>, identifiers |-> <<bd1>>] >>

\* two headers; both register "enhanced gfp" up to case
MapTwo ==
    << [header |-> sEGFP, valid |-> TRUE, source |-> <<fp3>>,
        names |-> <<sEGFP, sEnhancedGFP>>, identifiers |-> <<fp3>>],
       [header |-> sCFP, valid |-> FALSE, source |-> <<>>,
        names |-> <<sCFP, sEnhancedLower>>, identifiers |-> <<bd1>>] >>

\* two headers whose keys are equal up to case, the lower-cased one first
MapCase ==
    << [header |-> sEgfpLower, valid |-> TRUE, source |-> <<>>,
        names |-> <<sEgfpLower>>, identifiers |-> <<bd1>>],
       [header |-> sEGFP, valid |-> TRUE, source |-> <<fp1>>,
        names |-> <<sEGFP>>, identifiers |-> <<fp1>>] >>

LoadedMaps == {<<>>, MapEGFP, MapTwo, MapCase}

Init ==
    /\ map \in LoadedMaps
    /\ source = "none"
    /\ unresolved = <<>>
    /\ dangled = <<>>
    /\ origin = (IF map = <<>> THEN "empty" ELSE "file")
    /\ calls = 0
    /\ pre = [map |-> map, source |-> "none", unresolved |-> <<>>, dangled |-> <<>>]
    /\ last = [op |-> "init", data |-> <<>>, header |-> <<>>,
               identifier |-> NoIdentifier, valid |-> TRUE, raised |-> "none",
               rep |-> FALSE, before |-> "none"]
    /\ auditor = NoObject
    /\ unit = NoObject
    /\ managing = NoObject
    /\ comparer = NoObject

Next ==
    \/ \E data \in Batches : append(data)
    \/ \E header \in HeaderKeys, identifier \in Identifiers : append_to(header, identifier)
    \/ \E header \in HeaderKeys, identifier \in Identifiers, valid \in BOOLEAN :
           new(header, identifier, valid)
    \/ \E header \in HeaderKeys, identifier \in Identifiers : delete(header, identifier)
    \/ \E identifier \in Identifiers : delete_identifier(identifier)
    \/ sort

Spec == Init /\ [][Next]_vars

----------------------------------------------------------------------------
(* Map.manage_unresolved: a call that waits for the answers it asks for *)

\* the answers to "[0] ignore, [1] add to existing header, [2] create new
\* header, [3] create new header as invalid:", "exit", and one other answer
Responses == {"0", "1", "2", "3", "exit", "x"}

\* the answers to "Existing header name:" and "New header name:"
HeaderResponses == {<<>>, sEGFP, sDye}

\* the answers to "Invalidity note:": "" and "n"
NoteResponses == {<<>>, <<110>>}

\* list.remove(item): the first entry equal to the item is removed
remove(list, item) ==
    LET at == Min({i \in DOMAIN list : list[i] = item})
    IN  SubSeq(list, 1, at - 1) \o SubSeq(list, at + 1, Len(list))

\* for item in managed: self.unresolved.remove(item)
RECURSIVE remove_managed(_, _)
remove_managed(list, managed) ==
    IF managed = <<>> THEN list
    ELSE remove_managed(remove(list, Head(managed)), Tail(managed))

\* no call of manage_unresolved has been made
NotManaging ==
    [cls |-> "manage_unresolved", pc |-> "idle", i |-> 0, managed |-> <<>>,
     item_note |-> <<>>, start |-> <<>>, reviewed |-> <<>>, response |-> "",
     header |-> <<>>, note |-> <<>>, item |-> NoIdentifier, before |-> <<>>,
     outcome |-> "none", raised |-> "none"]

\* the state after Map(path).append(data) has returned
ManageInit ==
    /\ \E m \in LoadedMaps, data \in Batches :
           \E r \in {append_result(m, data)} :
               /\ r.raised = "none"
               /\ map = r.map
               /\ source = r.source
               /\ unresolved = r.unresolved
               /\ dangled \in Orders(r.dangling)
               /\ origin = (IF m = <<>> THEN "empty" ELSE "file")
               /\ pre = [map |-> m, source |-> "none", unresolved |-> <<>>,
                         dangled |-> <<>>]
               /\ last = [op |-> "append", data |-> data, header |-> <<>>,
                          identifier |-> NoIdentifier, valid |-> TRUE,
                          raised |-> "none", rep |-> FALSE, before |-> "none"]
    /\ calls = 1
    /\ auditor = NoObject
    /\ unit = NoObject
    /\ comparer = NoObject
    /\ managing = NotManaging

\* the call, up to its first question
manage_unresolved ==
    /\ managing.pc = "idle"
    /\ managing' = [managing EXCEPT
                        !.pc = IF unresolved = <<>> THEN "done" ELSE "input",
                        !.i = IF unresolved = <<>> THEN 0 ELSE 1,
                        !.start = unresolved,
                        !.before = map,
                        !.outcome = "called"]
    /\ UNCHANGED <<map, source, unresolved, dangled, origin, calls, pre, last,
                   auditor, unit, comparer>>

\* what one round of answers does to the map and to the locals of the call
manage_step(m, item, item_note, response, header_response, note_response) ==
    LET retry == [map |-> m, item_note |-> item_note, outcome |-> "retry"]
    IN  IF response = "0"
        THEN [map |-> m, item_note |-> item_note, outcome |-> "ignored"]
        ELSE IF response = "exit"
        THEN [map |-> m, item_note |-> item_note, outcome |-> "exit"]
        ELSE IF response \notin {"1", "2", "3"} \/ header_response = <<>>
        THEN retry
        ELSE IF response = "1"
        THEN LET r == append_to_result(m, header_response, item)
             IN  IF r.raised = "KeyError" THEN retry
                 ELSE [map |-> r.map, item_note |-> item_note, outcome |-> "managed"]
        ELSE IF response = "2"
        THEN LET r == new_result(m, header_response, item, TRUE)
             IN  IF r.raised = "KeyError" THEN retry
                 ELSE [map |-> r.map, item_note |-> item_note, outcome |-> "managed"]
        ELSE LET noted == IF note_response # <<>> THEN <<item>> ELSE item_note
             IN  IF noted = <<>>
                 THEN [map |-> m, item_note |-> noted, outcome |-> "UnboundLocalError"]
                 ELSE LET r == new_result(m, header_response, noted[1], FALSE)
                      IN  IF r.raised = "KeyError"
                          THEN [map |-> m, item_note |-> noted, outcome |-> "retry"]
                          ELSE [map |-> r.map, item_note |-> noted,
                                outcome |-> "managed"]

\* one round of answers for the item under review
respond(response, header_response, note_response) ==
    /\ managing.pc = "input"
    /\ \E s \in {manage_step(map, unresolved[managing.i], managing.item_note,
                             response, header_response, note_response)} :
         LET item == unresolved[managing.i]
             managed == IF s.outcome = "managed" THEN Append(managing.managed, item)
                        ELSE managing.managed
             leaves == s.outcome \in {"ignored", "managed"}
             ends == s.outcome = "exit" \/ (leaves /\ managing.i = Len(unresolved))
         IN  /\ map' = s.map
             /\ unresolved' = IF ends THEN remove_managed(unresolved, managed)
                              ELSE unresolved
             /\ managing' = [managing EXCEPT
                    !.pc = IF ends \/ s.outcome = "UnboundLocalError"
                           THEN "done" ELSE "input",
                    !.i = IF leaves /\ ~ends THEN @ + 1 ELSE @,
                    !.managed = managed,
                    !.item_note = s.item_note,
                    !.reviewed = IF leaves \/ s.outcome = "UnboundLocalError"
                                 THEN Append(@, [item |-> item, response |-> response,
                                                 note |-> note_response])
                                 ELSE @,
                    !.response = response,
                    !.header = header_response,
                    !.note = note_response,
                    !.item = item,
                    !.before = map,
                    !.outcome = s.outcome,
                    !.raised = IF s.outcome = "UnboundLocalError"
                               THEN "UnboundLocalError" ELSE "none"]
    /\ UNCHANGED <<source, dangled, origin, calls, pre, last, auditor, unit, comparer>>

ManageNext ==
    \/ manage_unresolved
    \/ \E response \in Responses, header_response \in HeaderResponses,
          note_response \in NoteResponses :
           respond(response, header_response, note_response)

ManageSpec == ManageInit /\ [][ManageNext]_vars

----------------------------------------------------------------------------
(* Vocabulary of the properties *)

\* the identifiers of a sequence of identifiers, as a set
Elements(seq) == {seq[i] : i \in DOMAIN seq}

\* the number of entries of a sequence that satisfy Test
CountIn(seq, Test(_)) == Cardinality({i \in DOMAIN seq : Test(seq[i])})

RECURSIVE Sum(_, _)
Sum(f, S) ==
    IF S = {} THEN 0
    ELSE LET x == CHOOSE y \in S : TRUE IN f[x] + Sum(f, S \ {x})

\* how often identifier occurs in the identifier lists of the map
Occurrences(m, identifier) ==
    Sum([i \in DOMAIN m |-> CountIn(m[i].identifiers, LAMBDA x : x = identifier)],
        DOMAIN m)

\* the headers of the map that hold identifier
Holders(m, identifier) ==
    {m[i].header : i \in {k \in DOMAIN m : identifier \in Elements(m[k].identifiers)}}

\* the identifier of a record of a batch
IdentifierOf(item) == Identifier(item.source, item.identifier)

\* the identifiers of a batch
BatchIdentifiers(data) == {IdentifierOf(data[i]) : i \in DOMAIN data}

\* every record of the batch has the source of the first one
SameSource(data) == \A i \in DOMAIN data : data[i].source = data[1].source

\* the identifiers of source src in the identifier lists of the map
MappedFor(m, src) ==
    {x \in UNION {Elements(m[i].identifiers) : i \in DOMAIN m} : x.source = src}

\* the last call was Map.append on a non-empty batch of one source and returned
Appended ==
    /\ last.op = "append"
    /\ last.data # <<>>
    /\ SameSource(last.data)
    /\ last.raised = "none"

\* the entries a header gained in the last call (Map.append and
\* Map.append_to add at the end of a list)
Gained(i) ==
    SubSeq(map[i].identifiers, Len(pre.map[i].identifiers) + 1,
           Len(map[i].identifiers))

----------------------------------------------------------------------------
(* C1 *)

\* C1: Map.append on a batch with records of more than one source raises an
\* error and leaves the map as it was before the call.
C1_MixedBatchLeavesMapUnchanged ==
    (last.op = "append" /\ ~SameSource(last.data))
        => (last.raised = "ValueError" /\ map = pre.map)

----------------------------------------------------------------------------
(* C2 *)

\* an identifier of the batch was mapped before the call and is untouched
C2_AlreadyMapped(x) ==
    /\ x \in MappedFor(pre.map, x.source)
    /\ Occurrences(map, x) = Occurrences(pre.map, x)
    /\ x \notin Elements(unresolved)

\* an identifier of the batch was appended once, to one header
C2_NewlyLinked(x) ==
    /\ x \notin MappedFor(pre.map, x.source)
    /\ Occurrences(map, x) = 1
    /\ x \notin Elements(unresolved)

\* an identifier of the batch is unresolved and in no header
C2_Unresolved(x) ==
    /\ x \notin MappedFor(pre.map, x.source)
    /\ Occurrences(map, x) = 0
    /\ x \in Elements(unresolved)

\* C2: after Map.append on a batch of one source every identifier of the
\* batch is already mapped and untouched, or newly appended exactly once to
\* one header, or unresolved and in no header; the three exclude each other.
C2_BatchPartitioned ==
    Appended =>
        \A x \in BatchIdentifiers(last.data) :
            C2_AlreadyMapped(x) \/ C2_NewlyLinked(x) \/ C2_Unresolved(x)

----------------------------------------------------------------------------
(* C3 *)

\* C3: after Map.append on a batch of source s, dangled holds exactly the
\* identifiers of source s that were in a header before the call and are the
\* identifier of no record of the batch, each once; none is of another
\* source and none was linked by this call.
C3_DangledExact ==
    Appended =>
        LET s == last.data[1].source
        IN  /\ Elements(dangled) = MappedFor(pre.map, s) \ BatchIdentifiers(last.data)
            /\ Cardinality(Elements(dangled)) = Len(dangled)
            /\ \A i \in DOMAIN dangled : dangled[i].source = s
            /\ \A i \in DOMAIN dangled :
                   Occurrences(map, dangled[i]) = Occurrences(pre.map, dangled[i])

\* a call that found a dangling identifier, linked a record, and met a map
\* that also holds an identifier of another source
C3_Witness ==
    /\ Appended
    /\ dangled # <<>>
    /\ map # pre.map
    /\ \E i \in DOMAIN pre.map : \E j \in DOMAIN pre.map[i].identifiers :
           pre.map[i].identifiers[j].source # last.data[1].source

----------------------------------------------------------------------------
(* C4 *)

\* the last call was Map.append on a non-empty batch of one source, made for
\* the second time in a row
AppendedAgain == Appended /\ last.rep /\ last.before = "none"

\* C4, as claimed: Map.append(B) made twice in a row on a batch of one source
\* leaves unresolved == [] and dangled == [] after the second call.
C4_SecondAppendLeavesNothing ==
    AppendedAgain => (unresolved = <<>> /\ dangled = <<>>)

\* C4, amended: the second of two Map.append(B) in a row links nothing, finds
\* the identifiers dangling that the first call found, and leaves unresolved
\* the identifiers the first call left unresolved and linked to no header.
C4_SecondAppendRepeatsFirst ==
    AppendedAgain =>
        /\ map = pre.map
        /\ Elements(dangled) = Elements(pre.dangled)
        /\ Len(dangled) = Len(pre.dangled)
        /\ unresolved = SelectSeq(pre.unresolved,
                                  LAMBDA x : Occurrences(pre.map, x) = 0)

\* a second call that leaves an identifier unresolved again and one dangled
\* again, after a first call that linked a record
C4_Witness ==
    /\ AppendedAgain
    /\ unresolved # <<>>
    /\ dangled # <<>>
    /\ \E x \in BatchIdentifiers(last.data) :
           /\ Occurrences(map, x) > 0
           /\ x \notin Elements(pre.dangled)

----------------------------------------------------------------------------
(* C5 *)

\* the lower-cased names registered under header i of the map before the call
C5_Registered(i) == {lower(pre.map[i].names[j]) : j \in DOMAIN pre.map[i].names}

\* the positions of the names of a record that equal, ignoring case, a name
\* registered under some header
C5_Hits(item) ==
    {k \in DOMAIN item.names :
        \E i \in DOMAIN pre.map : lower(item.names[k]) \in C5_Registered(i)}

\* the records of the batch whose identifier was not mapped before the call
C5_Unmapped ==
    {n \in DOMAIN last.data :
        IdentifierOf(last.data[n]) \notin MappedFor(pre.map, last.data[1].source)}

\* record n is linked by its first matching name to header i
C5_LinkedBy(n, i) ==
    LET item == last.data[n]
    IN  /\ n \in C5_Unmapped
        /\ C5_Hits(item) # {}
        /\ lower(item.names[Min(C5_Hits(item))]) \in C5_Registered(i)

\* C5: in Map.append every record with an unmapped identifier is linked by
\* its first name that equals, ignoring case, a registered name: its
\* identifier is appended to a header that registers that name, once, and to
\* no header on account of a later name; a record without such a name is
\* left unresolved.
C5_FirstMatchingNameLinks ==
    Appended =>
        /\ \A n \in C5_Unmapped :
               C5_Hits(last.data[n]) # {} =>
                   \E i \in DOMAIN map :
                       /\ C5_LinkedBy(n, i)
                       /\ IdentifierOf(last.data[n]) \in Elements(Gained(i))
        /\ \A i \in DOMAIN map : \A x \in Elements(Gained(i)) :
               \E n \in C5_Unmapped :
                   IdentifierOf(last.data[n]) = x /\ C5_LinkedBy(n, i)
        /\ Sum([i \in DOMAIN map |-> Len(Gained(i))], DOMAIN map)
               = Cardinality({n \in C5_Unmapped : C5_Hits(last.data[n]) # {}})
        /\ Len(unresolved)
               = Cardinality({n \in C5_Unmapped : C5_Hits(last.data[n]) = {}})

\* a call that linked one record by its second name, its first name matching
\* nothing, and another record by its first name although a later name of it
\* is registered under a header that did not gain its identifier
C5_Witness ==
    /\ Appended
    /\ \E n \in C5_Unmapped :
           /\ Min(C5_Hits(last.data[n]) \cup {3}) = 2
           /\ Occurrences(map, IdentifierOf(last.data[n])) = 1
           /\ IdentifierOf(last.data[n]) \notin Elements(unresolved)
    /\ \E n \in C5_Unmapped : \E i \in DOMAIN map :
           /\ Min(C5_Hits(last.data[n]) \cup {3}) = 1
           /\ lower(last.data[n].names[2]) \in C5_Registered(i)
           /\ IdentifierOf(last.data[n]) \notin Elements(map[i].identifiers)

----------------------------------------------------------------------------
(* C6 *)

\* C6: Map.new with a header already in the map and Map.append_to with a
\* header not in the map fail with a key error and leave the map exactly as
\* it was.
C6_KeyErrorLeavesMapUnchanged ==
    /\ (last.op = "new" /\ last.header \in Keys(pre.map))
           => (last.raised = "KeyError" /\ map = pre.map)
    /\ (last.op = "append_to" /\ last.header \notin Keys(pre.map))
           => (last.raised = "KeyError" /\ map = pre.map)

\* Map.new was called with the name of a header that holds another identifier
C6_Witness ==
    /\ last.op = "new"
    /\ last.header \in Keys(pre.map)
    /\ last.identifier \notin Elements(pre.map[IndexOf(pre.map, last.header)].identifiers)
    /\ last.raised = "KeyError"

----------------------------------------------------------------------------
(* C7 *)

\* C7: Map.delete(h, id) made a second time in a row does not raise and
\* changes nothing.
C7_SecondDeleteIsSafe ==
    (last.op = "delete" /\ last.rep /\ last.before = "none")
        => (last.raised = "none" /\ map = pre.map)

----------------------------------------------------------------------------
(* C8 *)

----------------------------------------------------------------------------
(* C9 *)

\* C9: after Map.delete_identifier(id) no header holds id, every header that
\* held only id is gone, every other header is still there, and the call did
\* not raise.
C9_DeleteIdentifierEverywhere ==
    last.op = "delete_identifier" =>
        /\ last.raised = "none"
        /\ Holders(map, last.identifier) = {}
        /\ Keys(map) =
               {pre.map[i].header : i \in {k \in DOMAIN pre.map :
                    Elements(pre.map[k].identifiers) # {last.identifier}}}

\* a call on an identifier held by two headers, one of which held nothing
\* else and was walked before the other
C9_Witness ==
    /\ last.op = "delete_identifier"
    /\ Cardinality(Holders(pre.map, last.identifier)) = 2
    /\ Len(map) = 1
    /\ map[1].header = pre.map[2].header

----------------------------------------------------------------------------
(* C10 *)

\* C10: in every state reached from the empty map each identifier is in the
\* identifier list of at most one header.
C10_OneHeaderPerIdentifier ==
    origin = "empty" =>
        \A i, j \in DOMAIN map :
            i # j => Elements(map[i].identifiers) \cap Elements(map[j].identifiers) = {}

----------------------------------------------------------------------------
(* C11 *)

\* C11: in every state reached from the empty map by append, new, append_to,
\* delete, delete_identifier and sort, every header of the map has at least
\* one identifier.
C11_NoEmptyHeader ==
    origin = "empty" => \A i \in DOMAIN map : map[i].identifiers # <<>>

\* from the empty map, a delete took the last identifier of a header and the
\* header left the map with it
C11_Witness ==
    /\ origin = "empty"
    /\ last.op \in {"delete", "delete_identifier"}
    /\ last.raised = "none"
    /\ \E i \in DOMAIN pre.map :
           /\ pre.map[i].identifiers = <<last.identifier>>
           /\ pre.map[i].header \notin Keys(map)

----------------------------------------------------------------------------
(* C12 *)

\* C12: Map.append on an empty batch leaves the map, unresolved and dangled
\* as they were before the call.
C12_EmptyAppendIsNoOp ==
    (last.op = "append" /\ last.data = <<>>)
        => /\ map = pre.map
           /\ unresolved = pre.unresolved
           /\ dangled = pre.dangled

----------------------------------------------------------------------------
(* C13 *)

\* the place of the header key in the map before the last call
C13_PlaceBefore(header) == IndexOf(pre.map, header)

\* C13: after Map.sort the header keys are in ascending order of their
\* lower-cased form, keys that are equal up to case are in the order they had
\* before, the map holds the same keys bound to the same headers as before,
\* and unresolved and dangled are as before.
C13_SortOrders ==
    last.op = "sort"
        => /\ \A i, j \in DOMAIN map :
                  i < j => ~StrLess(lower(map[j].header), lower(map[i].header))
           /\ \A i, j \in DOMAIN map :
                  (i < j /\ lower(map[i].header) = lower(map[j].header))
                      => C13_PlaceBefore(map[i].header) < C13_PlaceBefore(map[j].header)
           /\ Len(map) = Len(pre.map)
           /\ \A i \in DOMAIN pre.map : \E j \in DOMAIN map : map[j] = pre.map[i]
           /\ unresolved = pre.unresolved
           /\ dangled = pre.dangled

\* a sort moved a header to the front of two headers whose keys differ only
\* in case
C13_Witness ==
    /\ last.op = "sort"
    /\ map # pre.map
    /\ \E i, j \in DOMAIN map :
           /\ i < j
           /\ map[i].header # map[j].header
           /\ lower(map[i].header) = lower(map[j].header)

----------------------------------------------------------------------------
(* C26 *)

----------------------------------------------------------------------------
(* The auditor (src/tools/auditor.py)                                      *)
(*                                                                         *)
(* An error message is a record: its text, the number or character the     *)
(* text is formatted with (0 when there is none), and the prefixes put in  *)
(* front of it by the validators that collect it.  A validator object is   *)
(* the record of its attributes.                                           *)

\* an error message without a formatted value
E(msg) == [path |-> <<>>, msg |-> msg, n |-> 0]

\* an error message formatted with the value n
En(msg, n) == [path |-> <<>>, msg |-> msg, n |-> n]

\* f"{key}[{i}]:{error}"; i is -1 for a prefix without index
Prefixed(key, i, error) ==
    [error EXCEPT !.path = <<[key |-> key, i |-> i]>> \o @]

\* [f"{key}[{i}]:{error}" for error in errors]
PrefixAll(key, i, errors) ==
    [k \in DOMAIN errors |-> Prefixed(key, i, errors[k])]

\* AbstractAudit(): not valid, errors ["unchecked"]
AbstractAudit == [valid |-> FALSE, errors |-> <<E("unchecked")>>]

\* the outcome of an audit that sets valid from its error list
Audited(errors) == [valid |-> (errors = <<>>), errors |-> errors]

\* the outcome of an audit that keeps valid and errors as two locals
Verdict(valid, errors) == [valid |-> valid, errors |-> errors]

IsLower(c) == c >= 97 /\ c <= 122
IsUpper(c) == c >= 65 /\ c <= 90
IsDigit(c) == c >= 48 /\ c <= 57

\* the number of places of s that satisfy Test
CountPlaces(s, Test(_)) == Cardinality({i \in DOMAIN s : Test(i)})

\* errors.append(error) under a condition
AppendIf(errors, cond, error) == IF cond THEN Append(errors, error) ELSE errors

\* s[k:] with k counted from 0
From(s, k) == SubSeq(s, k + 1, Len(s))

\* s[:k]
UpTo(s, k) == SubSeq(s, 1, IF k < Len(s) THEN k ELSE Len(s))

\* str.split(c) for a separator of one character
RECURSIVE split(_, _)
split(s, c) ==
    IF \A i \in DOMAIN s : s[i] # c THEN <<s>>
    ELSE LET i == CHOOSE k \in DOMAIN s : s[k] = c /\ \A j \in 1..(k - 1) : s[j] # c
         IN  <<SubSeq(s, 1, i - 1)>> \o split(From(s, i), c)

\* str.strip(" ")
RECURSIVE strip(_)
strip(s) ==
    IF s = <<>> THEN s
    ELSE IF s[1] = 32 THEN strip(Tail(s))
    ELSE IF s[Len(s)] = 32 THEN strip(SubSeq(s, 1, Len(s) - 1))
    ELSE s

\* the digits of int(s): s without blanks around it and without its sign
int_digits(s) ==
    LET t == strip(s)
    IN  IF t # <<>> /\ t[1] \in {43, 45} THEN Tail(t) ELSE t

\* int(s) does not raise ValueError: digits, single underscores between them
int_ok(s) ==
    LET d == int_digits(s)
    IN  /\ d # <<>>
        /\ \A i \in DOMAIN d : IsDigit(d[i]) \/ d[i] = 95
        /\ IsDigit(d[1]) /\ IsDigit(d[Len(d)])
        /\ \A i \in 1..(Len(d) - 1) : ~(d[i] = 95 /\ d[i + 1] = 95)

RECURSIVE int_magnitude(_)
int_magnitude(d) ==
    IF d = <<>> THEN 0
    ELSE IF d[Len(d)] = 95 THEN int_magnitude(SubSeq(d, 1, Len(d) - 1))
    ELSE 10 * int_magnitude(SubSeq(d, 1, Len(d) - 1)) + (d[Len(d)] - 48)

\* int(s) where it does not raise
int(s) ==
    LET t == strip(s)
        m == int_magnitude(int_digits(s))
    IN  IF t[1] = 45 THEN 0 - m ELSE m

----------------------------------------------------------------------------
(* AuditHeader *)

\* the counter the loop of AuditHeader.audit adds to at place i
AuditHeader_letter(data, i) ==
    LET letter == data[i]
        colon_count == CountPlaces(data, LAMBDA k : k < i /\ data[k] = 58)
    IN  IF letter = 58
        THEN IF colon_count >= 1 THEN "error_colon_multiple" ELSE "none"
        ELSE IF IsLower(letter) THEN "error_char_lower"
        ELSE IF ~(IsUpper(letter) \/ IsDigit(letter)) THEN "error_char_illegal"
        ELSE IF i = Len(data) /\ letter = 58 THEN "error_char_last"
        ELSE "none"

AuditHeader_audit(data) ==
    LET count(c) == CountPlaces(data, LAMBDA i : AuditHeader_letter(data, i) = c)
        e1 == AppendIf(<<>>, data = <<>>, E("illegal missing header"))
        e2 == AppendIf(e1, count("error_char_lower") > 0,
                       En("illegal lower key characters", count("error_char_lower")))
        e3 == AppendIf(e2, count("error_char_illegal") > 0,
                       En("illegal characters", count("error_char_illegal")))
        e4 == AppendIf(e3, count("error_char_last") > 0,
                       En("illegal final characters (:)", count("error_char_last")))
        e5 == AppendIf(e4, count("error_colon_multiple") > 0,
                       En("illegal multiple colons", count("error_colon_multiple")))
    IN  Audited(e5)

----------------------------------------------------------------------------
(* AuditYear, AuditVolume, AuditIssue, AuditPages *)

AuditYear_audit(data) ==
    IF data = <<>> THEN Verdict(FALSE, <<E("missing year")>>)
    ELSE IF ~int_ok(data) THEN Verdict(FALSE, <<E("unconvertable to int")>>)
    ELSE LET year == int(data)
             e1 == AppendIf(<<>>, year < 1900, E("year before 1900"))
             e2 == AppendIf(e1, year > 2020, E("year after 2020"))
         IN  Verdict(e2 = <<>>, e2)

\* AuditVolume.audit raises: after the ValueError of int() is caught, volume
\* is still the str and "volume < 0" is a TypeError
AuditVolume_raised(data) ==
    IF data # <<>> /\ ~int_ok(data) THEN "TypeError" ELSE "none"

\* AuditVolume.audit; self is left as it is when the call raises
AuditVolume_audit(self, data) ==
    IF data = <<>> THEN Verdict(FALSE, <<E("missing volume")>>)
    ELSE IF ~int_ok(data) THEN self
    ELSE LET e1 == AppendIf(<<>>, int(data) < 0, E("negative volume"))
         IN  Verdict(e1 = <<>>, e1)

AuditIssue_audit(data) ==
    IF data = <<>> THEN Verdict(FALSE, <<E("missing journal issue")>>)
    ELSE IF ~int_ok(data) THEN Verdict(FALSE, <<E("unconvertable to int")>>)
    ELSE LET e1 == AppendIf(<<>>, int(data) < 0, E("negative issue"))
         IN  Verdict(e1 = <<>>, e1)

AuditPages_audit(data) ==
    IF data = <<>> THEN Verdict(FALSE, <<E("missing pages")>>)
    ELSE LET pages == split(data, 45)
             e1 == IF Len(pages) = 1
                   THEN AppendIf(<<>>, ~int_ok(pages[1]), E("unconvertable to int"))
                   ELSE IF Len(pages) = 2
                   THEN AppendIf(AppendIf(<<>>, ~int_ok(pages[1]),
                                          E("unconvertable first page")),
                                 ~int_ok(pages[2]), E("unconvertable final page"))
                   ELSE <<E("pages should just be first-final page")>>
         IN  Verdict(e1 = <<>>, e1)

----------------------------------------------------------------------------
(* AuditName, AuditEnable, AuditSource, AuditCategories, AuditUrl *)

\* the concatenation of the sequences of a sequence
RECURSIVE Flatten(_)
Flatten(seqs) == IF seqs = <<>> THEN <<>> ELSE Head(seqs) \o Flatten(Tail(seqs))

\* the errors of every place of s, in the order of the places
Collect(s, errors_at(_)) == Flatten([i \in DOMAIN s |-> errors_at(i)])

\* the loop of AuditName.audit over the letters from place i on
RECURSIVE AuditName_loop(_, _, _)
AuditName_loop(data, i, st) ==
    IF i > Len(data) THEN st
    ELSE LET letter == data[i]
             next ==
                 IF IsLower(letter) \/ IsUpper(letter) \/ IsDigit(letter) THEN st
                 ELSE IF letter = 40
                 THEN [st EXCEPT !.bracket_round_open = TRUE,
                                 !.error_bracket_double_open =
                                     IF st.bracket_round_open THEN @ + 1 ELSE @]
                 ELSE IF letter = 41
                 THEN IF ~st.bracket_round_open
                      THEN [st EXCEPT !.error_bracket_missing_open = @ + 1]
                      ELSE [st EXCEPT !.bracket_round_open = FALSE]
                 ELSE IF letter \in {32, 46, 44, 43, 45, 47} THEN st
                 ELSE [st EXCEPT !.error_char_illegal = @ + 1]
         IN  AuditName_loop(data, i + 1, next)

AuditName_audit(data) ==
    LET st == AuditName_loop(data, 1,
                  [bracket_round_open |-> FALSE, error_char_illegal |-> 0,
                   error_bracket_missing_open |-> 0, error_bracket_double_open |-> 0])
        error_bracket_missing_close == IF st.bracket_round_open THEN 1 ELSE 0
        e1 == AppendIf(<<>>, data = <<>>, E("illegal missing name"))
        e2 == AppendIf(e1, st.error_char_illegal > 0,
                       En("illegal character", st.error_char_illegal))
        e3 == AppendIf(e2, st.error_bracket_missing_open > 0,
                       En("illegal closing of round brackets",
                          st.error_bracket_missing_open))
        e4 == AppendIf(e3, error_bracket_missing_close > 0,
                       En("illegal opening of round brackets",
                          error_bracket_missing_close))
        e5 == AppendIf(e4, st.error_bracket_double_open > 0,
                       En("illegal nesting of round brackets",
                          st.error_bracket_missing_open))
    IN  Audited(e5)

\* AuditEnable.audit; data is "None", "True", "False" or "other" (no bool)
AuditEnable_audit(data) ==
    Audited(IF data = "None" THEN <<E("missing")>>
            ELSE IF data \notin {"True", "False"}
            THEN <<E("invalid non-boolean enable (how?)")>>
            ELSE <<>>)

AuditSource_audit(data) ==
    LET error_char_invalid ==
            CountPlaces(data, LAMBDA i : ~(IsLower(data[i]) \/ IsUpper(data[i])
                                           \/ data[i] \in {45, 32}))
        e1 == AppendIf(<<>>, data = <<>>, E("missing source"))
        e2 == AppendIf(e1, error_char_invalid > 0,
                       En("invalid characters", error_char_invalid))
    IN  Audited(e2)

AuditCategories_audit(data) == Verdict(TRUE, <<>>)

AuditUrl_audit(data) ==
    IF data = <<>> THEN Verdict(FALSE, <<E("missing url")>>)
    ELSE IF ~(\/ (Len(data) >= 7 /\ UpTo(data, 7) = <<104, 116, 116, 112, 58, 47, 47>>)
              \/ (Len(data) >= 8
                  /\ UpTo(data, 8) = <<104, 116, 116, 112, 115, 58, 47, 47>>))
    THEN Verdict(FALSE, <<E("missing http(s)://")>>)
    ELSE LET stripped == IF UpTo(data, 7) = <<104, 116, 116, 112, 58, 47, 47>>
                         THEN From(data, 8) ELSE From(data, 9)
             address == split(stripped, 47)
             address_host == split(address[1], 46)
             domain == address_host[Len(address_host)]
         IN  IF Len(address) <= 1
             THEN Verdict(FALSE, <<E("address too general")>>)
             ELSE IF Len(address_host) <= 1
             THEN Verdict(FALSE, <<E("incorret hostname")>>)
             ELSE IF domain = <<97, 114, 112, 97>>
             THEN Verdict(FALSE, <<E("arpa domain is not allowed")>>)
             ELSE IF Len(domain) > 3 \/ Len(domain) <= 1
             THEN Verdict(FALSE, <<E("impossible address domain")>>)
             ELSE IF \E k \in DOMAIN address : Len(address[k]) = 0
             THEN Verdict(FALSE, <<E("missing section in domain")>>)
             ELSE IF \E k \in DOMAIN address : address[k] = <<63>>
             THEN Verdict(FALSE, <<E("query's not allowed in address")>>)
             ELSE IF \E k \in DOMAIN address : address[k] = <<35>>
             THEN Verdict(FALSE, <<E("fragment's not allowed in address")>>)
             ELSE Verdict(TRUE, <<>>)

----------------------------------------------------------------------------
(* AuditAuthor, AuditTitle, AuditJournal, AuditDOI, AuditUrlPubmed,        *)
(* AuditUrlDOI                                                             *)

\* the errors of the initials, the last part of the name
AuditAuthor_initials(part) ==
    Collect(part,
            LAMBDA k : IF part[k] \in {46, 44}
                       THEN <<E("initials must have no seperator")>>
                       ELSE IF IsLower(part[k])
                       THEN <<E("initials must be uppercase")>>
                       ELSE IF ~(IsUpper(part[k]) \/ part[k] = 45)
                       THEN <<E("invalid character in initials")>>
                       ELSE <<>>)

\* the errors of the family name, the part before the initials
RECURSIVE AuditAuthor_family(_, _, _)
AuditAuthor_family(part, k, capital_expected) ==
    IF k > Len(part) THEN <<>>
    ELSE IF capital_expected
    THEN (IF ~IsUpper(part[k])
          THEN <<E("family name must start with capital")>> ELSE <<>>)
         \o AuditAuthor_family(part, k + 1, FALSE)
    ELSE IF part[k] = 45 THEN AuditAuthor_family(part, k + 1, TRUE)
    ELSE (IF ~IsLower(part[k])
          THEN <<E("invalid character in family name")>> ELSE <<>>)
         \o AuditAuthor_family(part, k + 1, FALSE)

\* "de", "van", "der", "De", "Van", "Der"
AuditAuthor_connecting ==
    { <<100, 101>>, <<118, 97, 110>>, <<100, 101, 114>>,
      <<68, 101>>, <<86, 97, 110>>, <<68, 101, 114>> }

\* AuditAuthor.audit; "missing author" and the "" of "et al" are a str in
\* the code where every other path stores a list
AuditAuthor_audit(data) ==
    IF data = <<>> THEN Verdict(FALSE, <<E("missing author")>>)
    ELSE IF data = <<101, 116, 32, 97, 108>> THEN Verdict(TRUE, <<>>)
    ELSE LET parts == split(data, 32)
             reversed == [i \in DOMAIN parts |-> parts[Len(parts) + 1 - i]]
             errors ==
                 Collect(reversed,
                         LAMBDA i : IF i = 1 THEN AuditAuthor_initials(reversed[i])
                                    ELSE IF i = 2
                                    THEN AuditAuthor_family(reversed[i], 1, TRUE)
                                    ELSE IF reversed[i] \notin AuditAuthor_connecting
                                    THEN <<E("unknown family name connecting word")>>
                                    ELSE <<>>)
         IN  Verdict(errors = <<>>, errors)

\* the errors of the words of a title or of a journal name
WordErrors(parts, Legal(_), double, illegal) ==
    Collect(parts,
            LAMBDA i : (IF Len(parts[i]) < 1 THEN <<E(double)>> ELSE <<>>)
                       \o Collect(parts[i],
                                  LAMBDA k : IF ~Legal(parts[i][k])
                                             THEN <<En(illegal, parts[i][k])>>
                                             ELSE <<>>))

AuditTitle_audit(data) ==
    IF data = <<>> THEN Verdict(FALSE, <<E("missing title")>>)
    ELSE LET errors ==
                 WordErrors(split(strip(data), 32),
                            LAMBDA c : IsLower(c) \/ IsUpper(c) \/ IsDigit(c)
                                       \/ c \in {32, 45, 44, 58, 40, 41},
                            "title contains double spaces",
                            "illegal character in title")
         IN  Verdict(errors = <<>>, errors)

AuditJournal_audit(data) ==
    IF data = <<>> THEN Verdict(FALSE, <<E("missing journal name")>>)
    ELSE LET errors ==
                 WordErrors(split(strip(data), 32),
                            LAMBDA c : IsLower(c) \/ IsUpper(c) \/ c = 32,
                            "journal contains double spaces",
                            "illegal character in journal")
         IN  Verdict(errors = <<>>, errors)

AuditDOI_audit(data) ==
    IF data = <<>> THEN Verdict(FALSE, <<E("missing doi")>>)
    ELSE LET doi == split(data, 47)
             prefix == split(doi[1], 46)
             e1 == AppendIf(<<>>, Len(doi) # 2, E("missing prefix/postfix"))
             e2 == AppendIf(e1, Len(prefix) < 2, E("missing prefix namespace"))
         IN  Verdict(e2 = <<>>, e2)

\* "https://www.ncbi.nlm.nih.gov/pubmed/"
sPubmed ==
    <<104, 116, 116, 112, 115, 58, 47, 47, 119, 119, 119, 46, 110, 99, 98, 105,
      46, 110, 108, 109, 46, 110, 105, 104, 46, 103, 111, 118, 47, 112, 117, 98,
      109, 101, 100, 47>>

\* "https://doi.org/"
sDoiOrg == <<104, 116, 116, 112, 115, 58, 47, 47, 100, 111, 105, 46, 111, 114, 103, 47>>

AuditUrlPubmed_audit(data) ==
    IF data = <<>> THEN Verdict(FALSE, <<E("missing pubmed url")>>)
    ELSE LET audit == AuditUrl_audit(data)
             e1 == AppendIf(<<>>, UpTo(data, 36) # sPubmed, E("incorrect pubmed url"))
             e2 == IF ~audit.valid THEN e1 \o audit.errors ELSE e1
         IN  Verdict(e2 = <<>>, e2)

AuditUrlDOI_audit(data) ==
    IF data = <<>> THEN Verdict(FALSE, <<E("missing doi url")>>)
    ELSE LET audit == AuditUrl_audit(data)
             e1 == AppendIf(<<>>, UpTo(data, 16) # sDoiOrg, E("incorrect doi url"))
             e2 == IF ~audit.valid THEN e1 \o audit.errors ELSE e1
         IN  Verdict(e2 = <<>>, e2)

\* AuditUrlDOI.audit_doi: the cross-check of the doi url with the doi
AuditUrlDOI_audit_doi(self, data, doi) ==
    IF data = <<>> /\ doi = <<>> THEN self
    ELSE IF data = <<>>
    THEN Verdict(FALSE, Append(self.errors, E("known doi, unknown url")))
    ELSE IF doi = <<>>
    THEN Verdict(FALSE, Append(self.errors, E("known url, unknown doi")))
    ELSE IF From(data, 16) # doi
    THEN Verdict(FALSE, Append(self.errors, E("doi unequal between doi and url")))
    ELSE self

----------------------------------------------------------------------------
(* AbstractAuditList, AuditNames, AuditAuthors *)

\* AbstractAuditList(): not valid, errors ["unchecked"], no audits
AbstractAuditList == [valid |-> FALSE, errors |-> <<E("unchecked")>>, audits |-> <<>>]

\* the errors of the audits that are not valid, each prefixed with its index
RECURSIVE audit_list_errors(_, _)
audit_list_errors(audits, i) ==
    IF i > Len(audits) THEN <<>>
    ELSE (IF ~audits[i].valid THEN PrefixAll("", i - 1, audits[i].errors) ELSE <<>>)
         \o audit_list_errors(audits, i + 1)

\* mutant of audit_list: a list without audits is valid
audit_list_empty_valid(audits) ==
    IF \E i \in DOMAIN audits : ~audits[i].valid
    THEN [valid |-> FALSE, errors |-> audit_list_errors(audits, 1), audits |-> audits]
    ELSE [valid |-> TRUE, errors |-> <<>>, audits |-> audits]

\* AbstractAuditList.audit_list on the audits of the list
audit_list(audits) ==
    IF audits = <<>>
    THEN [valid |-> FALSE, errors |-> <<E("missing")>>, audits |-> audits]
    ELSE IF \E i \in DOMAIN audits : ~audits[i].valid
    THEN [valid |-> FALSE, errors |-> audit_list_errors(audits, 1), audits |-> audits]
    ELSE [valid |-> TRUE, errors |-> <<>>, audits |-> audits]

\* AuditName(item): the audit runs in the constructor for a non-empty item
AuditName_new(item) == IF item = <<>> THEN AbstractAudit ELSE AuditName_audit(item)

\* AuditAuthor(item)
AuditAuthor_new(item) == IF item = <<>> THEN AbstractAudit ELSE AuditAuthor_audit(item)

\* AuditNames.audit; data is the list of names, empty for None
AuditNames_audit(data) ==
    audit_list([i \in DOMAIN data |-> AuditName_new(data[i])])

\* AuditAuthors.audit
AuditAuthors_audit(data) ==
    audit_list([i \in DOMAIN data |-> AuditAuthor_new(data[i])])

----------------------------------------------------------------------------
(* AuditReference, AuditReferences *)

\* AbstractReference with its fields; a missing str is the empty str
Reference(url, title, authors, year, journal, volume, issue, pages, doi, url_pubmed, url_doi) ==
    [url |-> url, title |-> title, authors |-> authors, year |-> year,
     journal |-> journal, volume |-> volume, issue |-> issue, pages |-> pages,
     doi |-> doi, url_pubmed |-> url_pubmed, url_doi |-> url_doi]

\* AbstractReference.__bool__
Reference_bool(data) ==
    \/ data.url # <<>> \/ data.title # <<>> \/ data.authors # <<>>
    \/ data.year # <<>> \/ data.journal # <<>> \/ data.volume # <<>>
    \/ data.issue # <<>> \/ data.pages # <<>> \/ data.doi # <<>>
    \/ data.url_pubmed # <<>> \/ data.url_doi # <<>>

\* AuditReference()
AuditReference ==
    [valid |-> FALSE, errors |-> <<E("unchecked")>>, is_url |-> FALSE,
     url |-> AbstractAudit, title |-> AbstractAudit, authors |-> AbstractAuditList,
     year |-> AbstractAudit, journal |-> AbstractAudit, volume |-> AbstractAudit,
     issue |-> AbstractAudit, pages |-> AbstractAudit, doi |-> AbstractAudit,
     url_pubmed |-> AbstractAudit, url_doi |-> AbstractAudit]

\* the errors AuditReference.audit collects from its validators
AuditReference_errors(self) ==
    IF self.is_url
    THEN IF ~self.url.valid THEN PrefixAll("url", -1, self.url.errors) ELSE <<>>
    ELSE LET of(key) == IF ~self[key].valid
                        THEN PrefixAll(key, -1, self[key].errors) ELSE <<>>
             authors ==
                 Collect(self.authors.audits,
                         LAMBDA i : IF ~self.authors.audits[i].valid
                                    THEN PrefixAll("author", i - 1,
                                                   self.authors.audits[i].errors)
                                    ELSE <<>>)
         IN  of("title") \o authors \o of("year") \o of("journal") \o of("volume")
             \o of("issue") \o of("pages") \o of("doi") \o of("url_doi")
             \o of("url_pubmed")

\* the reference is valid when no validator it looks at is invalid
AuditReference_verdict(self) ==
    IF self.is_url THEN self.url.valid
    ELSE /\ \A key \in {"title", "year", "journal", "volume", "issue", "pages",
                        "doi", "url_doi", "url_pubmed"} : self[key].valid
         /\ \A i \in DOMAIN self.authors.audits : self.authors.audits[i].valid

\* AuditReference.audit of a paper: the validators after all of them ran
AuditReference_fields(self, data) ==
    [self EXCEPT !.is_url = FALSE,
                 !.title = AuditTitle_audit(data.title),
                 !.authors = AuditAuthors_audit(data.authors),
                 !.year = AuditYear_audit(data.year),
                 !.journal = AuditJournal_audit(data.journal),
                 !.volume = AuditVolume_audit(self.volume, data.volume),
                 !.issue = AuditIssue_audit(data.issue),
                 !.pages = AuditPages_audit(data.pages),
                 !.doi = AuditDOI_audit(data.doi),
                 !.url_pubmed = AuditUrlPubmed_audit(data.url_pubmed),
                 !.url_doi = AuditUrlDOI_audit_doi(AuditUrlDOI_audit(data.url_doi),
                                                   data.url_doi, data.doi)]

\* AuditReference.audit of a paper, fields being the validators after all of
\* them ran: when the audit of the volume raises, the validators before it
\* have run and nothing else has changed; otherwise the verdict is drawn
AuditReference_paper(self, fields, raised) ==
    IF raised # "none"
    THEN [obj |-> [self EXCEPT !.is_url = FALSE, !.title = fields.title,
                               !.authors = fields.authors, !.year = fields.year,
                               !.journal = fields.journal],
          raised |-> raised]
    ELSE [obj |-> [fields EXCEPT !.valid = AuditReference_verdict(fields),
                                 !.errors = AuditReference_errors(fields)],
          raised |-> "none"]

\* "missing reference", letter by letter
sMissingReference ==
    <<"m", "i", "s", "s", "i", "n", "g", " ", "r", "e", "f", "e", "r", "e", "n", "c", "e">>

\* AuditReference.audit: the object after the call and the error raised; for
\* a reference that holds nothing errors becomes the str "missing reference"
\* and no list, held here as what a loop over it reads, its letters
AuditReference_audit(self, data) ==
    IF ~Reference_bool(data)
    THEN [obj |-> [self EXCEPT !.valid = FALSE,
                               !.errors = [i \in DOMAIN sMissingReference
                                             |-> E(sMissingReference[i])]],
          raised |-> "none"]
    ELSE IF data.url # <<>>
    THEN [obj |-> [self EXCEPT !.is_url = TRUE, !.url = AuditUrl_audit(data.url)],
          raised |-> "none"]
    ELSE AuditReference_paper(self, AuditReference_fields(self, data),
                              AuditVolume_raised(data.volume))

\* AuditReference(data): the audit runs in the constructor for a reference
\* that holds anything
AuditReference_new(data) ==
    IF Reference_bool(data) THEN AuditReference_audit(AuditReference, data)
    ELSE [obj |-> AuditReference, raised |-> "none"]

\* the loop of AuditReferences.audit, made being what the constructors of
\* the references give: it ends at the first constructor that raises, with
\* the validators constructed before it in the list
AuditReferences_loop(self, made) ==
    IF \A i \in DOMAIN made : made[i].raised = "none"
    THEN [obj |-> audit_list([i \in DOMAIN made |-> made[i].obj]), raised |-> "none"]
    ELSE [obj |-> [self EXCEPT !.audits =
                       [i \in 1..(Min({j \in DOMAIN made : made[j].raised # "none"}) - 1)
                          |-> made[i].obj]],
          raised |-> made[Min({j \in DOMAIN made : made[j].raised # "none"})].raised]

\* AuditReferences.audit: the object after the call and the error raised
AuditReferences_audit(self, data) ==
    AuditReferences_loop(self, [i \in DOMAIN data |-> AuditReference_new(data[i])])

----------------------------------------------------------------------------
(* The validators of the numbers.  A number is None (<<>>) or a value      *)
(* (<<n>>); a float is counted in millionths, so that the tolerance        *)
(* 0.00001 of the brightness check is 10.  The extinction coefficients     *)
(* handed in are multiples of 1000, which keeps the division exact.        *)

\* "not data" for a number: None or 0
Falsy(data) == data = <<>> \/ data = <<0>>

\* the branches shared by the audits of the numbers
AuditNumber_audit(data) ==
    IF data = <<0>> THEN Verdict(FALSE, <<E("value is 0")>>)
    ELSE IF data = <<>> THEN Verdict(FALSE, <<E("missing")>>)
    ELSE Verdict(TRUE, <<>>)

AuditExtinctionCoefficient_audit(data) == AuditNumber_audit(data)

AuditQuantumYield_audit(data) == AuditNumber_audit(data)

AuditCrossSection_audit(data) == AuditNumber_audit(data)

AuditBrightness_audit(data) == AuditNumber_audit(data)

\* Data.calculate_brightness: (extinction_coefficient / 1000) * quantum_yield
calculate_brightness(extinction_coefficient, quantum_yield) ==
    IF ~Falsy(extinction_coefficient) /\ ~Falsy(quantum_yield)
    THEN <<(extinction_coefficient[1] \div 1000) * quantum_yield[1]>>
    ELSE <<>>

\* mutant of AuditBrightness_audit_brightness: a brightness within the
\* tolerance is set valid
AuditBrightness_audit_brightness_revalidate(self, data, data_calc) ==
    LET substract == IF data[1] >= data_calc[1]
                     THEN data[1] - data_calc[1] ELSE data_calc[1] - data[1]
    IN  IF Falsy(data) \/ Falsy(data_calc) THEN self
        ELSE IF substract > 10
        THEN Verdict(FALSE, Append(self.errors,
                                   E("ec * qy is unequal to this brightness")))
        ELSE Verdict(TRUE, <<>>)

\* AuditBrightness.audit_brightness
AuditBrightness_audit_brightness(self, data, data_calc) ==
    LET substract == IF data[1] >= data_calc[1]
                     THEN data[1] - data_calc[1] ELSE data_calc[1] - data[1]
    IN  IF Falsy(data) \/ Falsy(data_calc) THEN self
        ELSE IF substract > 10
        THEN Verdict(FALSE, Append(self.errors,
                                   E("ec * qy is unequal to this brightness")))
        ELSE self

AuditBrightnessBin_audit(data) ==
    IF data = <<0>> THEN Verdict(FALSE, <<E("value is 0")>>)
    ELSE IF data = <<>> THEN Verdict(FALSE, <<E("missing")>>)
    ELSE IF data[1] < 1 \/ data[1] > 5
    THEN Verdict(FALSE, <<E("must be a value between 1-5")>>)
    ELSE Verdict(TRUE, <<>>)

----------------------------------------------------------------------------
(* AuditSpectrumWavelength, AuditSpectrumIntensity, AuditSpectrum *)

\* the point before place i in the loop of AuditSpectrumWavelength.audit
prev_point(data, i) == IF i = 1 THEN data[1] - 1 ELSE data[i - 1]

\* mutant of wavelength_stepsize: the stepsize is that of the last step,
\* whether it is 1 or not
wavelength_stepsize_last(data) == data[Len(data)] - prev_point(data, Len(data))

\* the stepsize the loop ends with: that of the last step that is not 1
wavelength_stepsize(data) ==
    LET off == {i \in DOMAIN data : data[i] - prev_point(data, i) # 1}
    IN  IF off = {} THEN 1
        ELSE LET i == CHOOSE k \in off : \A j \in off : j <= k
             IN  data[i] - prev_point(data, i)

AuditSpectrumWavelength_audit(data) ==
    IF data = <<>> THEN Verdict(FALSE, <<E("missing wavelength")>>)
    ELSE LET step(i) == data[i] - prev_point(data, i)
             e1 == AppendIf(<<>>, Len(data) <= 2,
                            E("wavelength contains <= 2 data points"))
             e2 == AppendIf(e1, \E i \in DOMAIN data : step(i) # 1,
                            En("illegal stepsize", wavelength_stepsize(data)))
             e3 == AppendIf(e2, \E i \in DOMAIN data : data[i] < 0,
                            E("contains entree <0"))
             e4 == AppendIf(e3, \E i \in DOMAIN data : data[i] > 2000,
                            E("contains entree >2000"))
             e5 == AppendIf(e4, \E i \in DOMAIN data : step(i) = 0,
                            E("contains double entrees"))
             e6 == AppendIf(e5, \E i \in DOMAIN data : step(i) < 0,
                            E("order not from low-to-high"))
         IN  Verdict(e6 = <<>>, e6)

\* float("nan"), which a spectrum read from a file can hold: a value apart
\* from the numbers, for which every comparison but != is false
nan == -1000000

\* a < b, a > b and a != b for floats
float_lt(a, b) == a # nan /\ b # nan /\ a < b

float_gt(a, b) == a # nan /\ b # nan /\ a > b

float_ne(a, b) == a = nan \/ b = nan \/ a # b

\* the loop of AuditSpectrumIntensity.audit from place i on
RECURSIVE intensity_loop(_, _, _)
intensity_loop(data, i, st) ==
    IF i > Len(data) THEN st
    ELSE intensity_loop(data, i + 1,
             IF float_gt(data[i], st.max_intensity_value)
             THEN [st EXCEPT !.max_intensity_value = data[i]]
             ELSE IF float_lt(data[i], st.min_intensity_value)
             THEN [st EXCEPT !.min_intensity_value = data[i]]
             ELSE st)

AuditSpectrumIntensity_audit(data) ==
    IF data = <<>> THEN Verdict(FALSE, <<E("missing intensity")>>)
    ELSE LET st == intensity_loop(data, 1, [max_intensity_value |-> data[1],
                                            min_intensity_value |-> data[1]])
             e1 == AppendIf(<<>>, Len(data) <= 2,
                            E("intensity contains <= 2 data points"))
             e2 == AppendIf(e1, \E i \in DOMAIN data : float_lt(data[i], 0),
                            E("contains entree <0"))
             e3 == AppendIf(e2, \E i \in DOMAIN data : float_gt(data[i], 100),
                            E("contains entree >100"))
             e4 == AppendIf(e3, float_ne(st.max_intensity_value, 100),
                            En("maximum intensity value is {max_intensity_value}, should be 100",
                               st.max_intensity_value))
             e5 == AppendIf(e4, float_ne(st.min_intensity_value, 0),
                            En("minimum intensity value is {min_intensity_value}, should be 0",
                               st.min_intensity_value))
         IN  Verdict(e5 = <<>>, e5)

\* AuditSpectrum()
AuditSpectrum ==
    [valid |-> FALSE, errors |-> <<E("unchecked")>>,
     wavelength_missing |-> TRUE, wavelength |-> AbstractAudit,
     intensity_missing |-> TRUE, intensity |-> AbstractAudit]

\* mutant of AuditSpectrum_audit: the lengths of the two lists are not compared
AuditSpectrum_audit_no_length(self, wavelength, intensity) ==
    LET missing == AppendIf(AppendIf(<<>>, wavelength = <<>>,
                                     E("missing wavelength data")),
                            intensity = <<>>, E("missing intensity data"))
        s1 == [self EXCEPT !.wavelength_missing = (wavelength = <<>>),
                           !.intensity_missing = (intensity = <<>>)]
        s2 == [s1 EXCEPT !.wavelength = AuditSpectrumWavelength_audit(wavelength),
                         !.intensity = AuditSpectrumIntensity_audit(intensity)]
    IN  IF missing # <<>> THEN [s1 EXCEPT !.valid = FALSE, !.errors = missing]
        ELSE IF ~s2.wavelength.valid \/ ~s2.intensity.valid
        THEN [s2 EXCEPT !.valid = FALSE,
                        !.errors = s2.wavelength.errors \o s2.intensity.errors]
        ELSE [s2 EXCEPT !.valid = TRUE, !.errors = <<>>]

\* AuditSpectrum.audit
AuditSpectrum_audit(self, wavelength, intensity) ==
    LET missing == AppendIf(AppendIf(<<>>, wavelength = <<>>,
                                     E("missing wavelength data")),
                            intensity = <<>>, E("missing intensity data"))
        s1 == [self EXCEPT !.wavelength_missing = (wavelength = <<>>),
                           !.intensity_missing = (intensity = <<>>)]
        length == AppendIf(<<>>, Len(intensity) # Len(wavelength),
                           E("wavelength and intensity arent of equal length"))
        s2 == [s1 EXCEPT !.wavelength = AuditSpectrumWavelength_audit(wavelength),
                         !.intensity = AuditSpectrumIntensity_audit(intensity)]
    IN  IF s1.intensity_missing \/ s1.wavelength_missing
        THEN [s1 EXCEPT !.valid = FALSE, !.errors = missing]
        ELSE IF ~s2.wavelength.valid \/ ~s2.intensity.valid
        THEN [s2 EXCEPT !.valid = FALSE,
                        !.errors = length \o s2.wavelength.errors
                                   \o s2.intensity.errors]
        ELSE [s2 EXCEPT !.valid = (length = <<>>), !.errors = length]

----------------------------------------------------------------------------
(* Auditor *)

\* Auditor()
Auditor ==
    [header |-> AbstractAudit, enable |-> AbstractAudit, source |-> AbstractAudit,
     categories |-> AbstractAudit, names |-> AbstractAuditList,
     extinction_coefficient |-> AbstractAudit, quantum_yield |-> AbstractAudit,
     cross_section |-> AbstractAudit, brightness |-> AbstractAudit,
     brightness_bin |-> AbstractAudit, url |-> AbstractAudit,
     references |-> AbstractAuditList, absorption |-> AuditSpectrum,
     excitation |-> AuditSpectrum, emission |-> AuditSpectrum,
     two_photon |-> AuditSpectrum]

\* the fields of an Auditor that hold a validator
AuditorKeys ==
    {"header", "enable", "source", "categories", "names", "extinction_coefficient",
     "quantum_yield", "cross_section", "brightness", "brightness_bin", "url",
     "references", "absorption", "excitation", "emission", "two_photon"}

\* mutant of Auditor_brightness: the audit of the brightness keeps the
\* error list of the validator and the cross-check adds to it
Auditor_brightness_keep(self, data) ==
    AuditBrightness_audit_brightness(
        [valid |-> AuditBrightness_audit(data.brightness).valid,
         errors |-> self.errors],
        data.brightness,
        calculate_brightness(data.extinction_coefficient, data.quantum_yield))

\* the brightness validator after Auditor.audit: the audit of the value, then
\* the cross-check with the value calculated
Auditor_brightness(self, data) ==
    AuditBrightness_audit_brightness(
        AuditBrightness_audit(data.brightness),
        data.brightness,
        calculate_brightness(data.extinction_coefficient, data.quantum_yield))

\* Auditor.audit up to the references, references being what the audit of the
\* references gives
Auditor_fields(self, data, references) ==
    [self EXCEPT
        !.header = AuditHeader_audit(data.header),
        !.enable = AuditEnable_audit(data.enable),
        !.source = AuditSource_audit(data.source),
        !.categories = AuditCategories_audit(data.categories),
        !.names = AuditNames_audit(data.names),
        !.extinction_coefficient =
            AuditExtinctionCoefficient_audit(data.extinction_coefficient),
        !.quantum_yield = AuditQuantumYield_audit(data.quantum_yield),
        !.cross_section = AuditCrossSection_audit(data.cross_section),
        !.brightness = Auditor_brightness(self.brightness, data),
        !.brightness_bin = AuditBrightnessBin_audit(data.brightness_bin),
        !.url = AuditUrl_audit(data.url),
        !.references = references]

\* Auditor.audit from the spectra on, fields being the object before them
Auditor_spectra(fields, data) ==
    [fields EXCEPT
        !.absorption = AuditSpectrum_audit(fields.absorption,
                           data.absorption_wavelength, data.absorption_intensity),
        !.excitation = AuditSpectrum_audit(fields.excitation,
                           data.excitation_wavelength, data.excitation_intensity),
        !.emission = AuditSpectrum_audit(fields.emission,
                         data.emission_wavelength, data.emission_intensity),
        !.two_photon = AuditSpectrum_audit(fields.two_photon,
                           data.two_photon_wavelength, data.two_photon_intensity)]

\* Auditor.audit, references being what the audit of the references gives:
\* when that raises the spectra are not audited
Auditor_result(self, data, references) ==
    IF references.raised # "none"
    THEN [obj |-> Auditor_fields(self, data, references.obj),
          raised |-> references.raised]
    ELSE [obj |-> Auditor_spectra(Auditor_fields(self, data, references.obj), data),
          raised |-> "none"]

\* Auditor.audit: the object after the call and the error raised
Auditor_audit(self, data) ==
    Auditor_result(self, data, AuditReferences_audit(self.references, data.references))

----------------------------------------------------------------------------
(* The values handed to the validators *)

\* "abcd"
sAbcd == <<97, 98, 99, 100>>

\* "1999"
s1999 == <<49, 57, 57, 57>>

\* "1899"
s1899 == <<49, 56, 57, 57>>

\* "2021"
s2021 == <<50, 48, 50, 49>>

\* "12"
s12 == <<49, 50>>

\* "-1"
sMinus1 == <<45, 49>>

\* "1-2"
s1to2 == <<49, 45, 50>>

\* "1-a"
s1toA == <<49, 45, 97>>

\* "a-2"
sAto2 == <<97, 45, 50>>

\* "1-2-3"
s1to2to3 == <<49, 45, 50, 45, 51>>

\* " 7 "
sBlank7 == <<32, 55, 32>>

\* "1_0"
s1Under0 == <<49, 95, 48>>

\* "GFP ("
sOpenName == <<71, 70, 80, 32, 40>>

\* "et al"
sEtAl == <<101, 116, 32, 97, 108>>

\* "Li AJ"
sLiAJ == <<76, 105, 32, 65, 74>>

\* "van Li A"
sVanLiA == <<118, 97, 110, 32, 76, 105, 32, 65>>

\* "li a"
sLowerAuthor == <<108, 105, 32, 97>>

\* "https://a.org/x"
sUrl ==
    <<104, 116, 116, 112, 115, 58, 47, 47, 97, 46, 111, 114, 103, 47, 120>>

\* "a.org/x"
sUrlNoScheme == <<97, 46, 111, 114, 103, 47, 120>>

\* "A title"
sTitle == <<65, 32, 116, 105, 116, 108, 101>>

\* "J Biol"
sJournal == <<74, 32, 66, 105, 111, 108>>

\* "1"
sOne == <<49>>

\* "2"
sTwo == <<50>>

\* "10.1/abc"
sDoi == <<49, 48, 46, 49, 47, 97, 98, 99>>

\* "10.1/abd"
sDoiOther == <<49, 48, 46, 49, 47, 97, 98, 100>>

\* "https://www.ncbi.nlm.nih.gov/pubmed/1"
sUrlPubmed ==
    <<104, 116, 116, 112, 115, 58, 47, 47, 119, 119, 119, 46, 110, 99, 98,
      105, 46, 110, 108, 109, 46, 110, 105, 104, 46, 103, 111, 118, 47, 112,
      117, 98, 109, 101, 100, 47, 49>>

\* "https://doi.org/10.1/abc"
sUrlDoi ==
    <<104, 116, 116, 112, 115, 58, 47, 47, 100, 111, 105, 46, 111, 114, 103,
      47, 49, 48, 46, 49, 47, 97, 98, 99>>

\* "fpbase"
sFpbase == <<102, 112, 98, 97, 115, 101>>

\* longest header handed to AuditHeader.audit
MaxHeaderLen == 3

\* longest list handed to AuditNames, AuditAuthors and AuditReferences
MaxList == 2

\* "A", ":", "a", "-"
HeaderChars == {65, 58, 97, 45}

HeaderStrings == SeqsUpTo(HeaderChars, MaxHeaderLen)

\* the str of a year, a volume, an issue or the pages of a reference
NumberStrings ==
    {<<>>, sAbcd, s1999, s1899, s2021, s12, sMinus1, s1to2, s1toA, sAto2,
     s1to2to3, sBlank7, s1Under0}

NameStrings == {<<>>, sEGFP, sOpenName}

AuthorStrings == {<<>>, sEtAl, sLiAJ, sVanLiA, sLowerAuthor}

\* a reference to a paper, every field filled in and in order
RefPaper ==
    Reference(<<>>, sTitle, <<sLiAJ>>, s1999, sJournal, sOne, sTwo, s1to2, sDoi,
              sUrlPubmed, sUrlDoi)

\* a reference that is a link
RefUrl == Reference(sUrl, <<>>, <<>>, <<>>, <<>>, <<>>, <<>>, <<>>, <<>>, <<>>, <<>>)

\* a reference without anything
RefEmpty == [RefUrl EXCEPT !.url = <<>>]

\* the references handed to AuditReference
References ==
    { RefPaper, RefUrl, RefEmpty,
      [RefUrl EXCEPT !.url = sUrlNoScheme],
      [RefPaper EXCEPT !.url = sUrl],
      [RefPaper EXCEPT !.authors = <<>>],
      [RefPaper EXCEPT !.authors = <<sLowerAuthor>>],
      [RefPaper EXCEPT !.volume = sAbcd],
      [RefPaper EXCEPT !.doi = sDoiOther] }

\* the references of the lists handed to AuditReferences
ListReferences == {RefPaper, RefUrl, [RefPaper EXCEPT !.volume = sAbcd]}

\* the wavelengths and the intensities of a spectrum
Wavelengths ==
    {<<>>, <<500, 501, 502>>, <<500, 501>>, <<500, 502, 503>>, <<500, 501, 502, 503>>}

Intensities ==
    {<<>>, <<0, 100, 0>>, <<0, 100>>, <<0, 50, 60>>, <<0, 50, 100, 0>>}

\* "https://a.org/x?y"
sUrlQuery ==
    <<104, 116, 116, 112, 115, 58, 47, 47, 97, 46, 111, 114, 103, 47, 120, 63, 121>>

\* "https://a.org/x#y"
sUrlFragment ==
    <<104, 116, 116, 112, 115, 58, 47, 47, 97, 46, 111, 114, 103, 47, 120, 35, 121>>

\* "https://a.org/?"
sUrlOnlyQuery ==
    <<104, 116, 116, 112, 115, 58, 47, 47, 97, 46, 111, 114, 103, 47, 63>>

\* "https://a.org/#"
sUrlOnlyFragment ==
    <<104, 116, 116, 112, 115, 58, 47, 47, 97, 46, 111, 114, 103, 47, 35>>

\* "https://a.org//x"
sUrlDouble ==
    <<104, 116, 116, 112, 115, 58, 47, 47, 97, 46, 111, 114, 103, 47, 47, 120>>

\* "https://a.org/x/"
sUrlTrailing ==
    <<104, 116, 116, 112, 115, 58, 47, 47, 97, 46, 111, 114, 103, 47, 120, 47>>

\* "http://a.org/x"
sUrlHttp ==
    <<104, 116, 116, 112, 58, 47, 47, 97, 46, 111, 114, 103, 47, 120>>

\* "https://a.org"
sUrlNoPath ==
    <<104, 116, 116, 112, 115, 58, 47, 47, 97, 46, 111, 114, 103>>

\* the urls handed to AuditUrl.audit
UrlStrings ==
    {<<>>, sUrl, sUrlNoScheme, sUrlQuery, sUrlFragment, sUrlOnlyQuery,
     sUrlOnlyFragment, sUrlDouble, sUrlTrailing, sUrlHttp, sUrlNoPath}

\* the errors a validator holds before a cross-check is called on it once more
MaxErrors == 2

\* the brightness values handed to AuditBrightness: None, 0, 30.0, 30.00001,
\* 30.000011 and 30.1
BrightnessValues ==
    {<<>>, <<0>>, <<30000000>>, <<30000010>>, <<30000011>>, <<30100000>>}

\* the values calculated from extinction coefficient and quantum yield that
\* are handed to AuditBrightness.audit_brightness: None, 0, 30.0
BrightnessCalculated == {<<>>, <<0>>, <<30000000>>}

\* the values of the intensity lists handed to AuditSpectrumIntensity.audit
IntensityValues == {0, 50, 100, nan}

\* the lists of three of these values, shorter lists, lists with a value out
\* of range, and the list [0, 50, 100, 50, 0]
IntensityLists ==
    {<<>>, <<100>>, <<0, 100>>, <<-1, 0, 100>>, <<0, 101, 100>>, <<0, 50, 100, 50, 0>>}
    \cup {<<a, b, c>> : a, b, c \in IntensityValues}

\* the values of the wavelength lists handed to AuditSpectrumWavelength.audit
WavelengthValues == {-1, 0, 1, 2}

\* the lists of three of these values, shorter lists, lists at the upper end
\* of the range, and lists of five points
WavelengthLists ==
    {<<>>, <<1>>, <<0, 1>>, <<0, 2>>, <<1998, 1999, 2000>>, <<1999, 2000, 2001>>,
     <<500, 501, 503, 504, 505>>, <<500, 501, 502, 503, 504>>,
     <<500, 502, 503, 504, 507>>}
    \cup {<<a, b, c>> : a, b, c \in WavelengthValues}

\* a Data of the viewer with the values that vary; the other fields are in
\* order, the spectra other than the emission spectrum are not given
Data(names, numbers, references, emission) ==
    [header |-> sEGFP, enable |-> "True", source |-> sFpbase, categories |-> <<>>,
     names |-> names,
     extinction_coefficient |-> numbers[1], quantum_yield |-> numbers[2],
     cross_section |-> <<>>, brightness |-> numbers[3], brightness_bin |-> <<3>>,
     url |-> sUrl, references |-> references,
     absorption_wavelength |-> <<>>, absorption_intensity |-> <<>>,
     excitation_wavelength |-> <<>>, excitation_intensity |-> <<>>,
     emission_wavelength |-> emission[1], emission_intensity |-> emission[2],
     two_photon_wavelength |-> <<>>, two_photon_intensity |-> <<>>]

\* extinction coefficient, quantum yield and brightness: none of them, 50000
\* with 0.6 and 30.0, 50000 with 0.6 and 30.1
DataNumbers ==
    { <<<<>>, <<>>, <<>>>>,
      <<<<50000>>, <<600000>>, <<30000000>>>>,
      <<<<50000>>, <<600000>>, <<30100000>>>> }

\* the emission spectrum: none, one in order, wavelengths without intensities
DataSpectra ==
    { <<<<>>, <<>>>>, << <<500, 501, 502>>, <<0, 100, 0>> >>,
      << <<500, 501, 502>>, <<>> >> }

\* the records handed to Auditor.audit: the numbers vary with the emission
\* spectrum, the names with the references
DataRecords ==
    { Data(<<sEGFP>>, numbers, <<RefPaper>>, emission) :
          numbers \in DataNumbers, emission \in DataSpectra }
    \cup
    { Data(names, <<<<>>, <<>>, <<>>>>, references, <<<<>>, <<>>>>) :
          names \in {<<>>, <<sEGFP>>},
          references \in {<<RefPaper>>, <<RefUrl>>,
                          <<[RefPaper EXCEPT !.volume = sAbcd]>>} }

----------------------------------------------------------------------------
(* The calls on an Auditor and on a validator of its own *)

\* the classes of the validators constructed on their own
UnitClasses ==
    {"AuditHeader", "AuditYear", "AuditVolume", "AuditIssue", "AuditPages",
     "AuditNames", "AuditAuthors", "AuditReference", "AuditReferences",
     "AuditSpectrumWavelength", "AuditSpectrumIntensity", "AuditSpectrum",
     "AuditUrl", "AuditBrightness"}

\* X(): the object of class cls after its constructor, called without data
Constructed(cls) ==
    IF cls \in {"AuditNames", "AuditAuthors", "AuditReferences"} THEN AbstractAuditList
    ELSE IF cls = "AuditReference" THEN AuditReference
    ELSE IF cls = "AuditSpectrum" THEN AuditSpectrum
    ELSE AbstractAudit

\* the validator after a call of its audit, with the history of the call
UnitAudited(cls, data, obj, raised) ==
    /\ unit.cls = cls
    /\ unit' = [cls |-> cls, op |-> "audit", data |-> data, obj |-> obj,
                pre |-> unit.obj, raised |-> raised]
    /\ UNCHANGED <<map, source, unresolved, dangled, origin, calls, pre, last, auditor,
                   managing, comparer>>

AuditHeader_call(data) ==
    UnitAudited("AuditHeader", data, AuditHeader_audit(data), "none")

AuditYear_call(data) ==
    UnitAudited("AuditYear", data, AuditYear_audit(data), "none")

AuditVolume_call(data) ==
    /\ unit.cls = "AuditVolume"
    /\ UnitAudited("AuditVolume", data, AuditVolume_audit(unit.obj, data),
                   AuditVolume_raised(data))

AuditIssue_call(data) ==
    UnitAudited("AuditIssue", data, AuditIssue_audit(data), "none")

AuditPages_call(data) ==
    UnitAudited("AuditPages", data, AuditPages_audit(data), "none")

AuditNames_call(data) ==
    UnitAudited("AuditNames", data, AuditNames_audit(data), "none")

AuditAuthors_call(data) ==
    UnitAudited("AuditAuthors", data, AuditAuthors_audit(data), "none")

AuditReference_call(data) ==
    /\ unit.cls = "AuditReference"
    /\ \E r \in {AuditReference_audit(unit.obj, data)} :
           UnitAudited("AuditReference", data, r.obj, r.raised)

AuditReferences_call(data) ==
    /\ unit.cls = "AuditReferences"
    /\ \E r \in {AuditReferences_audit(unit.obj, data)} :
           UnitAudited("AuditReferences", data, r.obj, r.raised)

AuditUrl_call(data) ==
    UnitAudited("AuditUrl", data, AuditUrl_audit(data), "none")

AuditBrightness_call(data) ==
    UnitAudited("AuditBrightness", data, AuditBrightness_audit(data), "none")

\* AuditBrightness.audit_brightness(data, data_calc) on the validator as it
\* is, while its list of errors is shorter than MaxErrors
AuditBrightness_audit_brightness_call(data, data_calc) ==
    /\ unit.cls = "AuditBrightness"
    /\ Len(unit.obj.errors) < MaxErrors
    /\ unit' = [cls |-> "AuditBrightness", op |-> "audit_brightness",
                data |-> <<data, data_calc>>,
                obj |-> AuditBrightness_audit_brightness(unit.obj, data, data_calc),
                pre |-> unit.obj, raised |-> "none"]
    /\ UNCHANGED <<map, source, unresolved, dangled, origin, calls, pre, last, auditor,
                   managing, comparer>>

AuditSpectrumWavelength_call(data) ==
    UnitAudited("AuditSpectrumWavelength", data,
                AuditSpectrumWavelength_audit(data), "none")

AuditSpectrumIntensity_call(data) ==
    UnitAudited("AuditSpectrumIntensity", data,
                AuditSpectrumIntensity_audit(data), "none")

AuditSpectrum_call(wavelength, intensity) ==
    /\ unit.cls = "AuditSpectrum"
    /\ UnitAudited("AuditSpectrum", <<wavelength, intensity>>,
                   AuditSpectrum_audit(unit.obj, wavelength, intensity), "none")

\* Auditor.audit(data), with the history of the call: the record, the error
\* raised, the auditor before, and whether the call before had the same record
Auditor_call(data) ==
    /\ auditor.cls = "Auditor"
    /\ \E r \in {Auditor_audit(auditor.obj, data)} :
           auditor' = [cls |-> "Auditor", op |-> "audit", data |-> data,
                       obj |-> r.obj, pre |-> auditor.obj, raised |-> r.raised,
                       rep |-> (auditor.op = "audit" /\ auditor.data = data)]
    /\ UNCHANGED <<map, source, unresolved, dangled, origin, calls, pre, last, unit,
                   managing, comparer>>

\* beside an empty Map, an Auditor constructed without data, or a validator
\* of one class constructed on its own
AuditInit ==
    /\ map = <<>>
    /\ source = "none"
    /\ unresolved = <<>>
    /\ dangled = <<>>
    /\ origin = "empty"
    /\ calls = 0
    /\ pre = [map |-> <<>>, source |-> "none", unresolved |-> <<>>, dangled |-> <<>>]
    /\ last = [op |-> "init", data |-> <<>>, header |-> <<>>,
               identifier |-> NoIdentifier, valid |-> TRUE, raised |-> "none",
               rep |-> FALSE, before |-> "none"]
    /\ managing = NoObject
    /\ comparer = NoObject
    /\ \/ /\ auditor = [cls |-> "Auditor", op |-> "init", data |-> <<>>,
                         obj |-> Auditor, pre |-> Auditor, raised |-> "none",
                         rep |-> FALSE]
          /\ unit = NoObject
       \/ /\ auditor = NoObject
          /\ \E cls \in UnitClasses :
                 unit = [cls |-> cls, op |-> "init", data |-> <<>>,
                         obj |-> Constructed(cls), pre |-> Constructed(cls),
                         raised |-> "none"]

AuditNext ==
    \/ \E data \in HeaderStrings : AuditHeader_call(data)
    \/ \E data \in NumberStrings : AuditYear_call(data)
    \/ \E data \in NumberStrings : AuditVolume_call(data)
    \/ \E data \in NumberStrings : AuditIssue_call(data)
    \/ \E data \in NumberStrings : AuditPages_call(data)
    \/ \E data \in SeqsUpTo(NameStrings, MaxList) : AuditNames_call(data)
    \/ \E data \in SeqsUpTo(AuthorStrings, MaxList) : AuditAuthors_call(data)
    \/ \E data \in References : AuditReference_call(data)
    \/ \E data \in SeqsUpTo(ListReferences, MaxList) : AuditReferences_call(data)
    \/ \E data \in UrlStrings : AuditUrl_call(data)
    \/ \E data \in BrightnessValues : AuditBrightness_call(data)
    \/ \E data \in BrightnessValues, data_calc \in BrightnessCalculated :
           AuditBrightness_audit_brightness_call(data, data_calc)
    \/ \E data \in WavelengthLists : AuditSpectrumWavelength_call(data)
    \/ \E data \in IntensityLists : AuditSpectrumIntensity_call(data)
    \/ \E wavelength \in Wavelengths, intensity \in Intensities :
           AuditSpectrum_call(wavelength, intensity)
    \/ \E data \in DataRecords : Auditor_call(data)

AuditSpec == AuditInit /\ [][AuditNext]_vars

----------------------------------------------------------------------------
(* The Comparer (src/tools/comparer.py) *)

\* longest run of calls made on one constructed Comparer
MaxSets == 2

\* an AbstractData as far as the comparison descends it: data_id (None or an
\* AbstractID), header and quantum_yield (None or a float); every other
\* attribute keeps the value of the constructor, None or an empty list, which
\* ClassComparison passes over
AbstractData(data_id, header, quantum_yield) ==
    [data_id |-> data_id, header |-> header, quantum_yield |-> quantum_yield]

\* the records of the collections: records of a PostProcessor, whose data_id
\* is None, and a read or scraped record, which holds its identifier
dataEGFP == [key |-> sEGFP, item |-> AbstractData(<<>>, sEGFP, <<600000>>)]
dataEGFPDim == [key |-> sEGFP, item |-> AbstractData(<<>>, sEGFP, <<500000>>)]
dataEGFPScraped == [key |-> sEGFP, item |-> AbstractData(<<fp1>>, sEGFP, <<600000>>)]
dataCFP == [key |-> sCFP, item |-> AbstractData(<<>>, sCFP, <<600000>>)]
dataCFPNaN == [key |-> sCFP, item |-> AbstractData(<<>>, sCFP, <<nan>>)]
dataDye == [key |-> sDye, item |-> AbstractData(<<>>, sDye, <<>>)]

\* AbstractCollection.collection: a dict, its keys pairwise distinct
Collections ==
    { <<>>, <<dataEGFP>>, <<dataEGFPDim>>, <<dataEGFPScraped>>, <<dataCFP>>,
      <<dataCFPNaN>>, <<dataEGFP, dataCFP>>, <<dataCFP, dataEGFP>>,
      <<dataEGFP, dataDye>>, <<dataCFP, dataDye>>, <<dataEGFPScraped, dataCFP>> }

\* what is handed to a Comparer: None or a collection
CollectionArguments == {<<>>} \cup {<<c>> : c \in Collections}

\* collection.keys()
collection_keys(c) == [i \in DOMAIN c |-> c[i].key]

\* collection[key]
collection_getitem(c, key) == c[CHOOSE i \in DOMAIN c : c[i].key = key].item

\* mutant of keys_not_in: every key of the first collection is kept
keys_not_in_all(x, y) == x

\* [k for k in x if k not in y]
keys_not_in(x, y) == SelectSeq(x, LAMBDA k : k \notin Elements(y))

\* [k for k in x if k in y]
keys_also_in(x, y) == SelectSeq(x, LAMBDA k : k \in Elements(y))

\* Comparison(a, b).identical for two optional floats: the types, then a != b
Comparison(a, b) ==
    IF a = <<>> \/ b = <<>> THEN a = b ELSE ~float_ne(a[1], b[1])

\* ClassComparison(a, b) of two records.  An AbstractID has a __dict__, so
\* ClassComparison descends it: it reads b.__dict__, which None does not
\* have, and otherwise reaches the Source of the identifier, an Enum member
\* whose __dict__ holds its class, whose __dict__ holds the member again, a
\* descent without end.  The other attributes are compared when one of the
\* two is not falsy.
ClassComparison(a, b) ==
    IF a.data_id # <<>>
    THEN [identical |-> FALSE, count |-> 0,
          raised |-> IF b.data_id = <<>> THEN "AttributeError" ELSE "RecursionError"]
    ELSE LET unequal ==
                 {k \in {"data_id", "header", "quantum_yield"} :
                     \/ k = "data_id" /\ b.data_id # <<>>
                     \/ k = "header" /\ a.header # b.header
                     \/ /\ k = "quantum_yield"
                        /\ ~(Falsy(a.quantum_yield) /\ Falsy(b.quantum_yield))
                        /\ ~Comparison(a.quantum_yield, b.quantum_yield)}
         IN  [identical |-> unequal = {}, count |-> Cardinality(unequal),
              raised |-> "none"]

\* self.differences[key] = comparison
differences_setitem(differences, key, comparison) ==
    LET entry == [key |-> key, identical |-> comparison.identical,
                  count |-> comparison.count]
    IN  IF \E i \in DOMAIN differences : differences[i].key = key
        THEN [i \in DOMAIN differences |->
                 IF differences[i].key = key THEN entry ELSE differences[i]]
        ELSE Append(differences, entry)

\* for key in self.keys_in_both: self.differences[key] = ClassComparison(...)
RECURSIVE differences_loop(_, _, _, _)
differences_loop(st, keys, a, b) ==
    IF keys = <<>> \/ st.raised # "none" THEN st
    ELSE differences_loop(
             LET c == ClassComparison(collection_getitem(a, Head(keys)),
                                      collection_getitem(b, Head(keys)))
             IN  IF c.raised # "none" THEN [st EXCEPT !.raised = c.raised]
                 ELSE [st EXCEPT !.differences = differences_setitem(@, Head(keys), c)],
             Tail(keys), a, b)

\* Comparer._count
Comparer__count(differences) ==
    Cardinality({i \in DOMAIN differences : ~differences[i].identical})

\* Comparer._compare once the two collections are there
Comparer__compare_both(self, keys_a, keys_b) ==
    LET keyed == [self EXCEPT !.keys_in_b = <<keys_not_in(keys_b, keys_a)>>,
                              !.keys_in_a = <<keys_not_in(keys_a, keys_b)>>,
                              !.keys_in_both = <<keys_also_in(keys_a, keys_b)>>]
        st == differences_loop([differences |-> self.differences, raised |-> "none"],
                               keyed.keys_in_both[1], self.a[1], self.b[1])
        count == Comparer__count(st.differences)
    IN  IF st.raised # "none"
        THEN [obj |-> [keyed EXCEPT !.differences = st.differences],
              raised |-> st.raised]
        ELSE [obj |-> [keyed EXCEPT !.differences = st.differences,
                                    !.count = count,
                                    !.identical =
                                        <<count = 0 /\ keyed.keys_in_a = << <<>> >>
                                                    /\ keyed.keys_in_b = << <<>> >> >>],
              raised |-> "none"]

\* Comparer._compare: without two collections identical is None and the
\* attributes keys_a, keys_b and key_both are set to None
Comparer__compare(self) ==
    IF self.a = <<>> \/ self.b = <<>>
    THEN [obj |-> [self EXCEPT !.identical = <<>>,
                               !.other = @ \cup {"keys_a", "keys_b", "key_both"}],
          raised |-> "none"]
    ELSE Comparer__compare_both(self, collection_keys(self.a[1]),
                                collection_keys(self.b[1]))

\* Comparer.__init__
Comparer(collection_a, collection_b) ==
    Comparer__compare([a |-> collection_a, b |-> collection_b, identical |-> <<>>,
                       count |-> 0, keys_in_a |-> <<>>, keys_in_b |-> <<>>,
                       keys_in_both |-> <<>>, differences |-> <<>>, other |-> {}])

\* the setter of a: None is stored and then refused as not a collection
Comparer_a(self, collection) ==
    IF collection = <<>>
    THEN [obj |-> [self EXCEPT !.a = <<>>], raised |-> "TypeError"]
    ELSE Comparer__compare([self EXCEPT !.a = collection])

\* the setter of b
Comparer_b(self, collection) ==
    IF collection = <<>>
    THEN [obj |-> [self EXCEPT !.b = <<>>], raised |-> "TypeError"]
    ELSE Comparer__compare([self EXCEPT !.b = collection])

\* Comparer.compare
Comparer_compare(self) ==
    IF self.a = <<>> \/ self.b = <<>>
    THEN [obj |-> [self EXCEPT !.identical = <<>>,
                               !.other = @ \cup {"keys_a", "keys_b", "keys_both"}],
          raised |-> "ValueError"]
    ELSE Comparer__compare(self)

\* the history of a call on the Comparer
Compared(op, arg, r) ==
    /\ comparer.obj # NoObject
    /\ comparer.calls < MaxSets
    /\ comparer' = [cls |-> "Comparer", op |-> op, arg |-> arg, obj |-> r.obj,
                    pre |-> comparer.obj, raised |-> r.raised,
                    calls |-> comparer.calls + 1]
    /\ UNCHANGED <<map, source, unresolved, dangled, origin, calls, pre, last,
                   auditor, unit, managing>>

\* comparer.a = collection
Comparer_a_set(collection) ==
    /\ comparer.obj # NoObject
    /\ \E r \in {Comparer_a(comparer.obj, collection)} : Compared("a", collection, r)

\* comparer.b = collection
Comparer_b_set(collection) ==
    /\ comparer.obj # NoObject
    /\ \E r \in {Comparer_b(comparer.obj, collection)} : Compared("b", collection, r)

\* comparer.compare()
Comparer_compare_call ==
    /\ comparer.obj # NoObject
    /\ \E r \in {Comparer_compare(comparer.obj)} : Compared("compare", <<>>, r)

\* beside an empty Map, a Comparer constructed on two arguments; a
\* constructor that raises leaves no object
CompareInit ==
    /\ map = <<>>
    /\ source = "none"
    /\ unresolved = <<>>
    /\ dangled = <<>>
    /\ origin = "empty"
    /\ calls = 0
    /\ pre = [map |-> <<>>, source |-> "none", unresolved |-> <<>>, dangled |-> <<>>]
    /\ last = [op |-> "init", data |-> <<>>, header |-> <<>>,
               identifier |-> NoIdentifier, valid |-> TRUE, raised |-> "none",
               rep |-> FALSE, before |-> "none"]
    /\ auditor = NoObject
    /\ unit = NoObject
    /\ managing = NoObject
    /\ \E collection_a \in CollectionArguments, collection_b \in CollectionArguments :
           \E r \in {Comparer(collection_a, collection_b)} :
               comparer = [cls |-> "Comparer", op |-> "init",
                           arg |-> <<collection_a, collection_b>>,
                           obj |-> IF r.raised = "none" THEN r.obj ELSE NoObject,
                           pre |-> NoObject, raised |-> r.raised, calls |-> 0]

CompareNext ==
    \/ \E collection \in CollectionArguments : Comparer_a_set(collection)
    \/ \E collection \in CollectionArguments : Comparer_b_set(collection)
    \/ Comparer_compare_call

CompareSpec == CompareInit /\ [][CompareNext]_vars

----------------------------------------------------------------------------
(* C14 *)

\* the last call on the Auditor audited the record of the call before it
AuditedAgain == auditor.cls = "Auditor" /\ auditor.op = "audit" /\ auditor.rep

\* C14: auditing the same record again on the same Auditor gives every field
\* validator the valid flag and the error list, in order, of the first call.
C14_AuditIdempotent ==
    AuditedAgain
        => \A key \in AuditorKeys :
               /\ auditor.obj[key].valid = auditor.pre[key].valid
               /\ auditor.obj[key].errors = auditor.pre[key].errors

\* a record whose brightness fails the cross-check was audited twice
C14_Witness ==
    /\ AuditedAgain
    /\ auditor.raised = "none"
    /\ auditor.obj.brightness.errors = <<E("ec * qy is unequal to this brightness")>>

----------------------------------------------------------------------------
(* C15 *)

\* the last call was the audit of a list validator and returned
ListAudited ==
    /\ unit.cls \in {"AuditNames", "AuditAuthors", "AuditReferences"}
    /\ unit.op = "audit"
    /\ unit.raised = "none"

\* the errors of the element validators that are not valid, each with the
\* index of its element in front, in the order of the elements
C15_ElementErrors(audits) ==
    Flatten([i \in DOMAIN audits |->
                IF audits[i].valid THEN <<>>
                ELSE [k \in DOMAIN audits[i].errors |->
                         [audits[i].errors[k] EXCEPT
                              !.path = <<[key |-> "", i |-> i - 1]>> \o @]]])

\* C15: after the audit of a list validator there is one element validator
\* for each element of the list; the list validator is valid iff the list is
\* not empty and every element validator is valid; when it is not valid and
\* the list is not empty its errors are those of the invalid elements, each
\* prefixed with the index of its element, in element order; for an empty
\* list it is not valid and its errors are ["missing"].
C15_ListVerdict ==
    ListAudited
        => /\ Len(unit.obj.audits) = Len(unit.data)
           /\ unit.obj.valid
                  <=> /\ unit.data # <<>>
                      /\ \A i \in DOMAIN unit.obj.audits : unit.obj.audits[i].valid
           /\ (~unit.obj.valid /\ unit.data # <<>>)
                  => unit.obj.errors = C15_ElementErrors(unit.obj.audits)
           /\ unit.data = <<>>
                  => ~unit.obj.valid /\ unit.obj.errors = <<E("missing")>>

\* both cases of the claim were audited: a list of two references of which
\* the first is valid and the second is not, and before it an empty list
C15_Witness ==
    /\ ListAudited
    /\ unit.cls = "AuditReferences"
    /\ Len(unit.data) = 2
    /\ unit.obj.audits[1].valid
    /\ ~unit.obj.audits[2].valid
    /\ unit.pre.errors = <<E("missing")>>

----------------------------------------------------------------------------
(* C16 *)

\* the last call was AuditReference.audit
ReferenceAudited == unit.cls = "AuditReference" /\ unit.op = "audit"

\* C16: after the audit of a reference with a non-empty url the reference is
\* valid iff its url validator accepts the url, and its errors are the errors
\* of the url validator, none when the url is valid.
C16_UrlReferenceVerdict ==
    (ReferenceAudited /\ unit.data.url # <<>>)
        => /\ unit.obj.url = AuditUrl_audit(unit.data.url)
           /\ unit.obj.valid = unit.obj.url.valid
           /\ unit.obj.valid => unit.obj.errors = <<>>
           /\ ~unit.obj.valid
                  => \A k \in DOMAIN unit.obj.errors :
                         \E j \in DOMAIN unit.obj.url.errors :
                             unit.obj.errors[k].msg = unit.obj.url.errors[j].msg

----------------------------------------------------------------------------
(* C17 *)

\* the validators of the fields of a reference to a paper
C17_Validators ==
    {"title", "authors", "year", "journal", "volume", "issue", "pages", "doi",
     "url_pubmed", "url_doi"}

\* C17: after the audit of a reference without url that holds anything, the
\* reference is valid iff each of its title, authors-list, year, journal,
\* volume, issue, pages, doi, url_pubmed and url_doi validators is valid.
C17_PaperReferenceVerdict ==
    (/\ ReferenceAudited
     /\ unit.raised = "none"
     /\ unit.data.url = <<>>
     /\ Reference_bool(unit.data))
        => (unit.obj.valid <=> \A key \in C17_Validators : unit.obj[key].valid)

----------------------------------------------------------------------------
(* C18 *)

\* a non-empty str without any digit
C18_NonNumeric(data) == data # <<>> /\ \A i \in DOMAIN data : ~IsDigit(data[i])

\* C18: AuditYear, AuditVolume, AuditIssue and AuditPages given a non-empty
\* str that holds no number return without raising, not valid, with an error
\* of the conversion in errors.
C18_NumericNeverRaises ==
    (/\ unit.cls \in {"AuditYear", "AuditVolume", "AuditIssue", "AuditPages"}
     /\ unit.op = "audit"
     /\ C18_NonNumeric(unit.data))
        => /\ unit.raised = "none"
           /\ ~unit.obj.valid
           /\ \E k \in DOMAIN unit.obj.errors :
                  unit.obj.errors[k].msg \in
                      {"unconvertable to int", "unconvertable first page",
                       "unconvertable final page"}

----------------------------------------------------------------------------
(* C19 *)

\* C19: AuditHeader accepts a header iff it is not empty, each of its
\* characters is in [A-Z0-9:], it holds at most one colon and its final
\* character is not a colon.
C19_HeaderAccepted ==
    (unit.cls = "AuditHeader" /\ unit.op = "audit")
        => (unit.obj.valid
               <=> /\ unit.data # <<>>
                   /\ \A i \in DOMAIN unit.data :
                          \/ IsUpper(unit.data[i])
                          \/ IsDigit(unit.data[i])
                          \/ unit.data[i] = 58
                   /\ Cardinality({i \in DOMAIN unit.data : unit.data[i] = 58}) <= 1
                   /\ unit.data[Len(unit.data)] # 58)

----------------------------------------------------------------------------
(* C20 *)

\* the last call was AuditSpectrum.audit(wavelength, intensity)
SpectrumAudited == unit.cls = "AuditSpectrum" /\ unit.op = "audit"

\* C20: after AuditSpectrum.audit(wavelength, intensity) the spectrum is valid
\* iff neither list is empty, the two are of equal length and both the
\* wavelength and the intensity validator are valid; wavelength_missing is
\* true exactly when wavelength is empty and intensity_missing exactly when
\* intensity is empty.
C20_SpectrumVerdict ==
    SpectrumAudited
        => /\ unit.obj.valid
                  <=> /\ unit.data[1] # <<>>
                      /\ unit.data[2] # <<>>
                      /\ Len(unit.data[1]) = Len(unit.data[2])
                      /\ unit.obj.wavelength.valid
                      /\ unit.obj.intensity.valid
           /\ unit.obj.wavelength_missing = (unit.data[1] = <<>>)
           /\ unit.obj.intensity_missing = (unit.data[2] = <<>>)

\* a spectrum of four wavelengths and three intensities was audited, each
\* list in order by itself, on a validator that held a valid spectrum before
C20_Witness ==
    /\ SpectrumAudited
    /\ Len(unit.data[1]) # Len(unit.data[2])
    /\ unit.obj.wavelength.valid
    /\ unit.obj.intensity.valid
    /\ unit.pre.valid

----------------------------------------------------------------------------
(* AuditSpectrumIntensity and AuditSpectrumWavelength on their own *)

\* C21: whenever AuditSpectrumIntensity reports valid, the list has at least
\* 3 points, every value lies in [0, 100], its maximum is exactly 100 and its
\* minimum is exactly 0
C21_IntensityValid ==
    (unit.cls = "AuditSpectrumIntensity" /\ unit.op = "audit" /\ unit.obj.valid)
        => /\ Len(unit.data) >= 3
           /\ \A i \in DOMAIN unit.data :
                  unit.data[i] # nan /\ unit.data[i] >= 0 /\ unit.data[i] <= 100
           /\ \E i \in DOMAIN unit.data : unit.data[i] = 100
           /\ \E i \in DOMAIN unit.data : unit.data[i] = 0

\* the steps of a list of wavelengths between consecutive points
C22_Steps(data) == {data[i] - data[i - 1] : i \in 2..Len(data)}

\* C22: whenever AuditSpectrumWavelength reports valid, the list has at
\* least 3 points, every consecutive step is exactly 1 and every value lies
\* in [0, 2000]; a list with a step other than 1 is invalid and its stepsize
\* error names the value of one of the steps that are not 1
C22_WavelengthValid ==
    (unit.cls = "AuditSpectrumWavelength" /\ unit.op = "audit")
        => /\ unit.obj.valid
                  => /\ Len(unit.data) >= 3
                     /\ C22_Steps(unit.data) = {1}
                     /\ \A i \in DOMAIN unit.data :
                            unit.data[i] >= 0 /\ unit.data[i] <= 2000
           /\ C22_Steps(unit.data) \ {1} # {}
                  => /\ ~unit.obj.valid
                     /\ \E k \in DOMAIN unit.obj.errors :
                            /\ unit.obj.errors[k].msg = "illegal stepsize"
                            /\ unit.obj.errors[k].n \in C22_Steps(unit.data) \ {1}

\* the list [500, 501, 503, 504, 505] was audited and its only error is the
\* stepsize 2, after a list in order was found valid
C22_Witness ==
    /\ unit.cls = "AuditSpectrumWavelength"
    /\ unit.op = "audit"
    /\ unit.data = <<500, 501, 503, 504, 505>>
    /\ unit.obj = Verdict(FALSE, <<En("illegal stepsize", 2)>>)
    /\ unit.pre = Verdict(TRUE, <<>>)

----------------------------------------------------------------------------
(* AuditUrl on its own *)

\* the str holds the character c
C23_Contains(data, c) == \E i \in DOMAIN data : data[i] = c

\* the url has an empty segment in its path: what follows "http://" or
\* "https://", split at "/", has an empty part after the host
C23_EmptySegment(data) ==
    LET rest == IF UpTo(data, 7) = <<104, 116, 116, 112, 58, 47, 47>>
                THEN From(data, 7)
                ELSE IF UpTo(data, 8) = <<104, 116, 116, 112, 115, 58, 47, 47>>
                THEN From(data, 8) ELSE data
        parts == split(rest, 47)
    IN  \E k \in 2..Len(parts) : parts[k] = <<>>

\* C23: AuditUrl rejects every url that holds a "?" or a "#" anywhere, and
\* every url with an empty segment in its path
C23_UrlRejects ==
    (/\ unit.cls = "AuditUrl"
     /\ unit.op = "audit"
     /\ \/ C23_Contains(unit.data, 63)
        \/ C23_Contains(unit.data, 35)
        \/ C23_EmptySegment(unit.data))
        => ~unit.obj.valid

----------------------------------------------------------------------------
(* The cross-check of the brightness *)

\* |a - b| for two numbers that are there
C28_Distance(a, b) == IF a[1] >= b[1] THEN a[1] - b[1] ELSE b[1] - a[1]

\* the validator after the cross-check, as the claim has it: untouched unless
\* both values are there and not 0 and differ by more than 0.00001
C28_Expected(self, data, data_calc) ==
    IF data # <<>> /\ data # <<0>> /\ data_calc # <<>> /\ data_calc # <<0>>
       /\ C28_Distance(data, data_calc) > 10
    THEN [valid |-> FALSE,
          errors |-> Append(self.errors, E("ec * qy is unequal to this brightness"))]
    ELSE self

\* the value (extinction_coefficient / 1000) * quantum_yield of a record,
\* None when one of the two is missing or 0
C28_Calculated(data) ==
    IF data.extinction_coefficient \in {<<>>, <<0>>}
       \/ data.quantum_yield \in {<<>>, <<0>>}
    THEN <<>>
    ELSE <<(data.extinction_coefficient[1] \div 1000) * data.quantum_yield[1]>>

\* C28: the cross-check of the brightness runs only when the brightness and
\* the value calculated are both there and not 0; it then sets the brightness
\* invalid and appends its error iff the two differ by more than 0.00001, and
\* it never turns an invalid brightness valid; Auditor.audit runs it with
\* extinction_coefficient / 1000 * quantum_yield on the brightness audited
C28_BrightnessCrossCheck ==
    /\ (unit.cls = "AuditBrightness" /\ unit.op = "audit_brightness")
           => /\ unit.obj = C28_Expected(unit.pre, unit.data[1], unit.data[2])
              /\ ~unit.pre.valid => ~unit.obj.valid
    /\ (auditor.cls = "Auditor" /\ auditor.op = "audit")
           => auditor.obj.brightness
                  = C28_Expected(AuditBrightness_audit(auditor.data.brightness),
                                 auditor.data.brightness,
                                 C28_Calculated(auditor.data))

\* a brightness found missing stays invalid through a cross-check of 30.1
\* with 30.0 and gains the error
C28_Witness ==
    /\ unit.cls = "AuditBrightness"
    /\ unit.op = "audit_brightness"
    /\ unit.data = <<<<30100000>>, <<30000000>>>>
    /\ unit.pre = Verdict(FALSE, <<E("missing")>>)
    /\ unit.obj = Verdict(FALSE, <<E("missing"),
                                   E("ec * qy is unequal to this brightness")>>)

----------------------------------------------------------------------------
(* The Auditor audited again *)

\* C27: the state of an Auditor after audit depends on the record audited
\* only: after audits of other records, the valid flag and errors of every
\* validator and of every validator nested in one equal those a new Auditor
\* gives for the record, also when the record lacks a spectrum that a record
\* before had
C27_StateOfRecordOnly ==
    (auditor.cls = "Auditor" /\ auditor.op = "audit" /\ auditor.raised = "none")
        => auditor.obj = Auditor_audit(Auditor, auditor.data).obj

----------------------------------------------------------------------------
(* C29 *)

\* how often an identifier occurs in a list
C29_Count(list, x) == Cardinality({i \in DOMAIN list : list[i] = x})

\* the last answers chose create-new-header-invalid, with a header name that
\* is not in the map and with an empty note
C29_CreatedInvalid ==
    /\ managing.outcome \notin {"none", "called"}
    /\ managing.response = "3"
    /\ managing.header # <<>>
    /\ managing.header \notin Keys(managing.before)
    /\ managing.note = <<>>

\* the reviews that take their identifier out of unresolved
C29_Resolved(x) ==
    {k \in DOMAIN managing.reviewed :
        managing.reviewed[k].item = x /\ managing.reviewed[k].response # "0"}

\* C29: in manage_unresolved, create-new-header-invalid with a fresh header
\* name and an empty note creates that header with valid = False holding
\* exactly the identifier under review, and the identifier has left
\* unresolved when the call has ended; ignore leaves the map as it was and
\* the identifier in unresolved.
C29_CreateInvalidAndIgnore ==
    /\ C29_CreatedInvalid =>
           /\ managing.raised = "none"
           /\ map = Append(managing.before,
                           [Header(managing.header) EXCEPT
                                !.identifiers = <<managing.item>>,
                                !.valid = FALSE])
    /\ (managing.pc = "done" /\ managing.outcome # "exit") =>
           \A k \in DOMAIN managing.reviewed :
               LET x == managing.reviewed[k].item
               IN  C29_Count(unresolved, x)
                       = C29_Count(managing.start, x) - Cardinality(C29_Resolved(x))
    /\ (managing.outcome = "ignored") => map = managing.before

----------------------------------------------------------------------------
(* C24 *)

\* C24: for every collection X, Comparer(X, X) reports identical == True,
\* keys_in_a and keys_in_b empty and count == 0.
C24_Reflexive ==
    (/\ comparer.op = "init"
     /\ comparer.arg[1] # <<>>
     /\ comparer.arg[1] = comparer.arg[2]) =>
        /\ comparer.raised = "none"
        /\ comparer.obj.identical = <<TRUE>>
        /\ comparer.obj.keys_in_a = << <<>> >>
        /\ comparer.obj.keys_in_b = << <<>> >>
        /\ comparer.obj.count = 0

----------------------------------------------------------------------------
(* C25 *)

\* a Comparer that holds two collections
C25_Compared ==
    /\ comparer.obj # NoObject
    /\ comparer.obj.a # <<>>
    /\ comparer.obj.b # <<>>

\* C25: keys_in_a of Comparer(X, Y) is keys_in_b of Comparer(Y, X), and
\* within one comparison keys_in_a, keys_in_b and keys_in_both are pairwise
\* disjoint and together hold exactly the keys of the two collections.
C25_KeysSymmetricAndPartitioned ==
    C25_Compared =>
        LET obj == comparer.obj
            in_a == Elements(obj.keys_in_a[1])
            in_b == Elements(obj.keys_in_b[1])
            in_both == Elements(obj.keys_in_both[1])
        IN  /\ obj.keys_in_a = Comparer(obj.b, obj.a).obj.keys_in_b
            /\ obj.keys_in_b = Comparer(obj.b, obj.a).obj.keys_in_a
            /\ in_a \cap in_b = {}
            /\ in_a \cap in_both = {}
            /\ in_b \cap in_both = {}
            /\ in_a \cup in_b \cup in_both
                   = Elements(collection_keys(obj.a[1]))
                         \cup Elements(collection_keys(obj.b[1]))
            /\ Len(obj.keys_in_a[1]) + Len(obj.keys_in_b[1])
                   + 2 * Len(obj.keys_in_both[1])
                   = Len(obj.a[1]) + Len(obj.b[1])

\* a constructor has returned a Comparer of two collections with a key only
\* in a, a key only in b and a key in both
C25_Witness ==
    /\ comparer.op = "init"
    /\ comparer.raised = "none"
    /\ C25_Compared
    /\ comparer.obj.keys_in_a = << <<sEGFP>> >>
    /\ comparer.obj.keys_in_b = << <<sDye>> >>
    /\ comparer.obj.keys_in_both = << <<sCFP>> >>

----------------------------------------------------------------------------
(* C30 *)

\* the setter of a or b has returned and the Comparer holds two collections
C30_Replaced ==
    /\ comparer.op \in {"a", "b"}
    /\ comparer.raised = "none"
    /\ comparer.obj.a # <<>>
    /\ comparer.obj.b # <<>>

\* C30: after a collection is replaced through the a or b setter,
\* differences, count and identical describe the current pair only:
\* differences holds an entry for exactly the keys now in keys_in_both, and
\* count and identical are those of a comparison of the current pair.
C30_SetterDescribesCurrentPair ==
    C30_Replaced =>
        LET obj == comparer.obj
        IN  /\ {obj.differences[i].key : i \in DOMAIN obj.differences}
                   = Elements(obj.keys_in_both[1])
            /\ obj.count = Comparer(obj.a, obj.b).obj.count
            /\ obj.identical = Comparer(obj.a, obj.b).obj.identical

====
